---------------------------- MODULE Spec2Model ----------------------------
(***************************************************************************)
(* Verification model of the combo overlay code of vial-gui:               *)
(*   - ComboSlotAssigner (widgets/combo_label_placement)                   *)
(*   - ConnectorRouter (widgets/connector_routing)                         *)
(*   - RoutingGrid / Pathfinder (widgets/alt_combos)                       *)
(*   - KeyboardWidget's combo layout cache (widgets/keyboard_widget.py)    *)
(*   - PathSimplifier (widgets/alt_combos/path_simplifier.py)              *)
(*   - the adjacency test of ComboInfoBuilder and ComboLayoutAnalyzer      *)
(*   - PasswordSession (password_session.py)                               *)
(*   - PasswordCrypto.generate_iv (crypto/password_crypto.py)              *)
(*   - ActionPassword.serialize (macro/macro_action.py)                    *)
(*   - MatrixLayerManager (editor/matrix_layer_manager.py)                 *)
(* Each component has its own specification; the variables of the other   *)
(* components stay at their idle values in it.                             *)
(*                                                                         *)
(* Geometry is integer.  Costs and distances, which the source holds as    *)
(* floats, are fixed-point numbers in units of 1 / Precision, square roots *)
(* rounded down.                                                           *)
(***************************************************************************)
EXTENDS Integers, Sequences, FiniteSets, TLC

VARIABLES
    \* ---- ComboSlotAssigner (one instance, one assign() call) ----
    slots,            \* self.slots
    padding,          \* self.padding
    canvas_bounds,    \* self.canvas_bounds (origin 0,0 as the caller builds it)
    key_rects,        \* self.key_rects
    avg_key_size,     \* self.avg_key_size
    combo_infos,      \* the argument of assign()
    todo,             \* position of assign()'s loop: sorted infos still to process
    placed_rects,     \* self.placed_rects
    used_slot_ids,    \* self.used_slot_ids
    assignments,      \* assign()'s local result: index -> [slot, rect]
    placed_log,       \* per entry of placed_rects: the combo index and the stage of
                      \* _choose_slot that produced it
    \* ---- ConnectorRouter (one instance, calls of route()) ----
    router_key_rects, \* self.key_rects
    route_label_center,     \* argument of the last route() call, <<>> before the first
    route_key_rect,  \* argument of the last route() call
    route_points,           \* what the last route() call returned
    \* ---- RoutingGrid and Pathfinder (one grid, calls of find_path()) ----
    grid,             \* the RoutingGrid object
    pf_bend_penalty,     \* Pathfinder.bend_penalty
    pf_start,            \* arguments of the last find_path() call
    pf_goal,
    pf_nearest_start,    \* what _find_nearest_unblocked returned for them
    pf_nearest_goal,
    pf_path,             \* the (path, cost) the call returned
    pf_cost,
    pf_raised,           \* the call ended in an exception
    route_count,      \* number of find_path() calls so far
    \* ---- KeyboardWidget ----
    kw_font,             \* the font in force (fontMetrics(), QApplication.font())
    scale,            \* self.scale
    kw_padding,       \* self.padding
    widget_store,     \* the KeyWidget objects created so far, by identity
    common_widgets,   \* self.common_widgets (identities)
    widgets,          \* self.widgets (identities)
    width,            \* self.width
    height,           \* self.height
    free_slots,       \* self.free_slots
    kw_canvas_bounds, \* self.canvas_bounds
    combo_entries,    \* self.combo_entries
    last_widget_keycodes,           \* self._last_widget_keycodes
    combo_entries_numeric,          \* self.combo_entries_numeric
    combo_widget_keycodes_numeric,  \* self.combo_widget_keycodes_numeric
    show_combos,      \* self.show_combos
    combo_cache,      \* self._combo_cache
    generation,       \* number of set_keys() calls so far
    computations,     \* _compute_combo_cache calls since the last invalidation
    cache_inputs,     \* the inputs the last computation read
    last_paint,       \* "none", or how the paintEvent that just ran ended
    \* ---- PathSimplifier (passes of _remove_collinear over one path) ----
    sp_path,          \* the path in hand: the input, then what each pass returned
    sp_prev,          \* the argument of the last pass
    sp_passes,        \* number of passes so far
    \* ---- adjacency test (calls on one list of key centres) ----
    adj_centers,      \* the centres, doubled, in the order of the last call
    adj_avg_size,     \* avg_size of the combo
    adj_adjacent,     \* <<>>, or <<what ComboInfoBuilder._is_adjacent returned>>
    adj_analyzer,     \* <<>>, or <<what ComboLayoutAnalyzer.are_keys_adjacent returned>>
    adj_fill,         \* the flood fill of the last call: visited set, pops
    adj_calls,        \* number of calls so far
    \* ---- PasswordSession (the singleton and the calls on it) ----
    ps_instance,      \* PasswordSession._instance is not None
    ps_derived_key,   \* self._derived_key (<<>> is None)
    ps_key_salt,      \* self._key_salt (<<>> is None)
    ps_is_unlocked,   \* self._is_unlocked
    ps_last,          \* the last calls, oldest first: name, arguments, outcome
    ps_id,            \* which object PasswordSession._instance is (0 is None)
    ps_created,       \* the PasswordSession objects created so far
    ps_former,        \* the objects that were _instance, with their fields
    ps_key_buffer,    \* which bytearray self._derived_key is (0 is None)
    ps_heap,          \* the contents of the bytearrays created so far
    \* ---- PasswordCrypto.generate_iv (calls) ----
    iv,               \* what the last generate_iv() returned, <<>> before the first
    iv_previous,      \* what the call before it returned
    iv_calls,         \* number of calls so far
    \* ---- ActionPassword (one object, calls of serialize) ----
    ap_cipher_len,    \* len(self.encrypted_data)
    ap_iv_len,        \* len(self.iv)
    ap_vial_protocol, \* argument of the last serialize() call
    ap_serialized,    \* how the last serialize() call ended, and its bytes
    \* ---- MatrixLayerManager and the key states its caller keeps ----
    lm_keyboard,      \* self._keyboard: None, or its layers and its keymap
    lm_current_layer, \* self._current_layer
    lm_toggled_layers,     \* self._toggled_layers
    lm_momentary_layers,   \* self._momentary_layers
    lm_active_layer_keys,  \* self._active_layer_keys: key -> (key_type, target_layer)
    lm_tri_layer_held,     \* self._tri_layer_held
    lm_pressed,       \* the keys the caller holds as pressed (previous_pressed)
    lm_last           \* the last call: its name, argument and result

assignerVars == <<slots, padding, canvas_bounds, key_rects, avg_key_size,
                  combo_infos, todo, placed_rects, used_slot_ids,
                  assignments, placed_log>>

routerVars == <<router_key_rects, route_label_center, route_key_rect, route_points>>

pathfinderVars == <<grid, pf_bend_penalty, pf_start, pf_goal, pf_nearest_start, pf_nearest_goal,
                    pf_path, pf_cost, pf_raised, route_count>>

widgetVars == <<kw_font, scale, kw_padding, widget_store, common_widgets, widgets,
                width, height, free_slots, kw_canvas_bounds, combo_entries,
                last_widget_keycodes, combo_entries_numeric,
                combo_widget_keycodes_numeric, show_combos, combo_cache,
                generation, computations, cache_inputs, last_paint>>

simplifierVars == <<sp_path, sp_prev, sp_passes>>

adjacencyVars == <<adj_centers, adj_avg_size, adj_adjacent, adj_analyzer, adj_fill, adj_calls>>

sessionVars == <<ps_instance, ps_derived_key, ps_key_salt, ps_is_unlocked, ps_last,
                 ps_id, ps_created, ps_former, ps_key_buffer, ps_heap>>

cryptoVars == <<iv, iv_previous, iv_calls>>

macroVars == <<ap_cipher_len, ap_iv_len, ap_vial_protocol, ap_serialized>>

layerVars == <<lm_keyboard, lm_current_layer, lm_toggled_layers, lm_momentary_layers,
               lm_active_layer_keys, lm_tri_layer_held, lm_pressed, lm_last>>

vars == <<assignerVars, routerVars, pathfinderVars, widgetVars,
          simplifierVars, adjacencyVars, sessionVars,
          cryptoVars, macroVars, layerVars>>

(***************************************************************************)
(* Bounds of the model.                                                    *)
(***************************************************************************)
Precision == 100      \* fixed-point denominator of the float costs
MaxSlots == 3         \* longest self.slots list drawn
MaxCombos == 3        \* longest combo_infos list drawn
MaxRoutes == 2        \* find_path() calls on one grid
MaxSetKeys == 2       \* set_keys() calls on one widget
MaxComputations == 2  \* computations counted between two invalidations

\* Python's None where a record is expected
None == [none |-> TRUE]

(***************************************************************************)
(* Arithmetic helpers.                                                     *)
(***************************************************************************)
Min(a, b) == IF a <= b THEN a ELSE b
Max(a, b) == IF a >= b THEN a ELSE b
Abs(a) == IF a < 0 THEN -a ELSE a

RECURSIVE IsqrtIter(_, _, _)
IsqrtIter(n, lo, hi) ==
    IF lo >= hi THEN lo
    ELSE LET mid == (lo + hi + 1) \div 2
         IN  IF mid <= n \div mid THEN IsqrtIter(n, mid, hi)
             ELSE IsqrtIter(n, lo, mid - 1)

\* floor of the square root of n, known to lie in lo..hi
Isqrt(n, lo, hi) == IsqrtIter(n, lo, hi)

\* math.hypot(dx, dy) in units of 1 / Precision, rounded down
Hypot(dx, dy) ==
    Isqrt(Precision * Precision * (dx * dx + dy * dy),
          Precision * (IF Abs(dx) >= Abs(dy) THEN Abs(dx) ELSE Abs(dy)),
          Precision * (Abs(dx) + Abs(dy)))

\* squared length, for exact comparisons of two distances
Sq(dx, dy) == dx * dx + dy * dy

(***************************************************************************)
(* QRectF / QPointF.                                                       *)
(***************************************************************************)
Rect(x, y, w, h) == [x |-> x, y |-> y, w |-> w, h |-> h]
Pt(x, y) == <<x, y>>

Right(r) == r.x + r.w
Bottom(r) == r.y + r.h

\* QRectF.intersects: strict overlap, false for a rectangle of zero extent
Intersects(a, b) ==
    /\ a.w # 0 /\ a.h # 0 /\ b.w # 0 /\ b.h # 0
    /\ a.x < Right(b) /\ b.x < Right(a)
    /\ a.y < Bottom(b) /\ b.y < Bottom(a)

\* area of QRectF.intersected for two intersecting rectangles
IntersectedArea(a, b) ==
    (Min(Right(a), Right(b)) - Max(a.x, b.x)) *
    (Min(Bottom(a), Bottom(b)) - Max(a.y, b.y))

\* twice QRectF.center(), exact for every size
Center2(r) == <<2 * r.x + r.w, 2 * r.y + r.h>>

RECURSIVE SumSeq(_)
SumSeq(s) == IF s = <<>> THEN 0 ELSE Head(s) + SumSeq(Tail(s))

RECURSIVE SeqLess(_, _)
\* Python's < on two tuples of numbers
SeqLess(a, b) ==
    IF a = <<>> THEN b # <<>>
    ELSE IF b = <<>> THEN FALSE
    ELSE IF Head(a) # Head(b) THEN Head(a) < Head(b)
    ELSE SeqLess(Tail(a), Tail(b))

\* list.sort(key=...) / sorted(key=...): stable, ascending; keys[i] is the
\* key of s[i], a tuple of numbers
SortByKey(s, keys) ==
    LET n == Len(s)
        rank(i) == Cardinality({j \in 1..n :
                        \/ SeqLess(keys[j], keys[i])
                        \/ (j < i /\ ~SeqLess(keys[i], keys[j]))})
    IN  [k \in 1..n |-> s[CHOOSE i \in 1..n : rank(i) = k - 1]]

\* the elements of s at the indices of idx, in the order of s
Pick(s, idx) ==
    [k \in 1..Cardinality(idx) |->
        s[CHOOSE i \in idx : Cardinality({j \in idx : j < i}) = k - 1]]

(***************************************************************************)
(* combo_slot_assigner.py: module-level helpers.                           *)
(***************************************************************************)
Slot(position, region_type, clearance_score, id) ==
    [position |-> position, region_type |-> region_type,
     clearance_score |-> clearance_score, id |-> id]

\* _range_steps(start, end, step): start, start+step, ... while <= end
range_steps(start, end, step) ==
    IF end < start THEN <<>>
    ELSE [k \in 1..(((end - start) \div step) + 1) |-> start + (k - 1) * step]

\* squared _slot_distance (the order of two distances is the order of their squares)
slot_distance_sq(slot, anchor) ==
    Sq(slot.position[1] - anchor[1], slot.position[2] - anchor[2])

\* _slot_distance, fixed point
slot_distance(slot, anchor) ==
    Hypot(slot.position[1] - anchor[1], slot.position[2] - anchor[2])

\* sorted by the distance to the anchor
by_distance(slot_list, anchor) ==
    SortByKey(slot_list, [k \in 1..Len(slot_list) |->
                             <<slot_distance_sq(slot_list[k], anchor)>>])

\* _split_slots: (preferred, fallback), each sorted by distance to the anchor
split_preferred(slot_list, info) ==
    by_distance(Pick(slot_list, {i \in 1..Len(slot_list) :
                        info.adjacent /\ slot_list[i].region_type = "INTER_KEY"}),
                info.anchor)

split_fallback(slot_list, info) ==
    by_distance(Pick(slot_list, {i \in 1..Len(slot_list) :
                        ~(info.adjacent /\ slot_list[i].region_type = "INTER_KEY")}),
                info.anchor)

\* clamp that forgets the far (right / bottom) side
clamp_rect_near_side_only(rect, pad, canvas) ==
    Rect(Max(pad, rect.x), Max(pad, rect.y), rect.w, rect.h)

\* _clamp_rect
clamp_rect(rect, pad, canvas) ==
    Rect(Max(pad, Min(rect.x, canvas.w - rect.w - pad)),
         Max(pad, Min(rect.y, canvas.h - rect.h - pad)),
         rect.w, rect.h)

\* _rect_for_slot (rect_w and rect_h are even)
rect_for_slot(slot, rect_w, rect_h, pad, canvas) ==
    clamp_rect(Rect(slot.position[1] - rect_w \div 2,
                    slot.position[2] - rect_h \div 2, rect_w, rect_h),
               pad, canvas)

\* overlap test that compares with the last placed rectangle only
rect_overlaps_last_only(rect, placed) ==
    placed # <<>> /\ Intersects(rect, placed[Len(placed)])

\* _rect_overlaps
rect_overlaps(rect, placed) ==
    \E i \in 1..Len(placed) : Intersects(rect, placed[i])

\* _region_bonus, fixed point
region_bonus(slot, info, avg) ==
    IF info.adjacent
    THEN IF slot.region_type = "EXTERIOR" THEN -((avg * 6 * Precision) \div 10)
         ELSE IF slot.region_type = "INTER_KEY" THEN (avg * 6 * Precision) \div 10
         ELSE (avg * 3 * Precision) \div 10
    ELSE 0

\* _multi_key_penalty, fixed point
multi_key_penalty(slot, info, avg) ==
    IF info.nkeys <= 2 THEN 0
    ELSE IF slot.region_type = "EXTERIOR" THEN 0
    ELSE (avg * 9 * Precision) \div 10

\* _key_overlap_penalty * avg_key_size * 2.0, fixed point
key_overlap_penalty(rect, keys, avg) ==
    LET area == SumSeq([i \in 1..Len(keys) |->
                    IF Intersects(rect, keys[i])
                    THEN IntersectedArea(rect, keys[i]) ELSE 0])
        rect_area == rect.w * rect.h
    IN  IF area # 0 /\ rect_area # 0
        THEN (area * avg * 2 * Precision) \div rect_area
        ELSE 0

\* _spacing_penalty * avg_key_size, fixed point: the sum of
\* (avg - dist) over the placed rectangles whose centre is closer than avg
spacing_penalty(rect, placed, avg) ==
    SumSeq([i \in 1..Len(placed) |->
        LET dx2 == Center2(rect)[1] - Center2(placed[i])[1]
            dy2 == Center2(rect)[2] - Center2(placed[i])[2]
        IN  IF Sq(dx2, dy2) < 4 * avg * avg
            THEN avg * Precision - (Hypot(dx2, dy2) \div 2)
            ELSE 0])

\* _slot_cost
slot_cost(slot, rect, info, avg, keys, placed) ==
    slot_distance(slot, info.anchor)
    + key_overlap_penalty(rect, keys, avg)
    + spacing_penalty(rect, placed, avg)
    + multi_key_penalty(slot, info, avg)
    - (slot.clearance_score * 2) \div 10
    - region_bonus(slot, info, avg)


(***************************************************************************)
(* class ComboSlotAssigner.                                                *)
(***************************************************************************)
\* a sort key that forgets the number of trigger keys
sort_key_by_area_only(info) == <<-(info.rect_w * info.rect_h)>>

\* _sort_key: (-(rect_w * rect_h), -len(combo_widgets)), compared as tuples
sort_key(info) == <<-(info.rect_w * info.rect_h), -info.nkeys>>

\* _sorted_infos
sorted_infos(infos) ==
    SortByKey(infos, [i \in 1..Len(infos) |-> sort_key(infos[i])])

\* _candidate_slots
candidate_slots(slot_list, info) ==
    LET preferred == split_preferred(slot_list, info)
        fallback == split_fallback(slot_list, info)
        candidates == SubSeq(preferred, 1, Min(Len(preferred), 20))
                      \o SubSeq(fallback, 1, Min(Len(fallback), 30))
    IN  IF Len(candidates) >= 10 THEN candidates ELSE preferred \o fallback

\* _evaluate_slot's two early returns: the slot is used, or its rectangle
\* overlaps a placed one
admissible(info, slot, pad, canvas, placed, used) ==
    /\ slot.id \notin used
    /\ ~rect_overlaps(rect_for_slot(slot, info.rect_w, info.rect_h, pad, canvas), placed)

\* _evaluate_slot: None, or (cost, slot, rect)
evaluate_slot(info, slot, pad, canvas, avg, keys, placed, used) ==
    IF ~admissible(info, slot, pad, canvas, placed, used) THEN None
    ELSE LET rect == rect_for_slot(slot, info.rect_w, info.rect_h, pad, canvas)
         IN  [cost |-> slot_cost(slot, rect, info, avg, keys, placed),
              slot |-> slot, rect |-> rect]

\* a variant that breaks a tie of least cost by the identity of the Slot object
pick_best_by_identity(ev) ==
    LET ok == {i \in 1..Len(ev) : ev[i] # None}
    IN  IF ok = {} THEN None
        ELSE LET b == CHOOSE i \in ok : \A j \in ok :
                          \/ ev[i].cost < ev[j].cost
                          \/ /\ ev[i].cost = ev[j].cost
                             /\ ~SeqLess(Tail(ev[j].slot.id), Tail(ev[i].slot.id))
             IN  [slot |-> ev[b].slot, rect |-> ev[b].rect]

\* _pick_best and _strip_cost: the first of the least-cost results that are
\* not None, without its cost, or None
pick_best(ev) ==
    LET ok == {i \in 1..Len(ev) : ev[i] # None}
    IN  IF ok = {} THEN None
        ELSE LET b == CHOOSE i \in ok : \A j \in ok :
                          \/ ev[i].cost < ev[j].cost
                          \/ (ev[i].cost = ev[j].cost /\ i <= j)
             IN  [slot |-> ev[b].slot, rect |-> ev[b].rect]

\* _best_from_candidates
best_from_candidates(info, slot_list, pad, canvas, avg, keys, placed, used) ==
    pick_best([i \in 1..Len(slot_list) |->
                  evaluate_slot(info, slot_list[i], pad, canvas, avg, keys, placed, used)])

\* _fallback_slots: fresh Slot objects along the canvas border
fallback_slots(tag, pad, canvas, avg) ==
    LET step == Max(8, (avg * 4) \div 10)
        xs == range_steps(pad, canvas.w - pad, step)
        ys == range_steps(pad, canvas.h - pad, step)
        points == [k \in 1..(2 * Len(xs)) |->
                      IF k % 2 = 1 THEN Pt(xs[(k + 1) \div 2], pad)
                      ELSE Pt(xs[k \div 2], canvas.h - pad)]
                  \o
                  [k \in 1..(2 * Len(ys)) |->
                      IF k % 2 = 1 THEN Pt(pad, ys[(k + 1) \div 2])
                      ELSE Pt(canvas.w - pad, ys[k \div 2])]
    IN  [k \in 1..Len(points) |-> Slot(points[k], "EXTERIOR", 0, <<"fallback", tag, k>>)]

\* _spiral_slots: 7 radii, 8 directions each, fresh Slot objects;
\* spiral_slot(k) is the k-th slot the generator yields
spiral_slot(tag, anchor, avg, k) ==
    LET step == Max(4, (avg * 2) \div 10)
        dirs == << <<-1, 0>>, <<1, 0>>, <<0, -1>>, <<0, 1>>,
                   <<-1, -1>>, <<1, -1>>, <<-1, 1>>, <<1, 1>> >>
        radius == ((k - 1) \div 8) + 1
        d == dirs[((k - 1) % 8) + 1]
        offset == step * radius
    IN  Slot(Pt(anchor[1] + d[1] * offset, anchor[2] + d[2] * offset),
             "INTERIOR", 0, <<"spiral", tag, k>>)

spiral_slots(tag, anchor, avg) ==
    [k \in 1..(7 * 8) |-> spiral_slot(tag, anchor, avg, k)]

\* _best_from_spiral: the first spiral slot _evaluate_slot admits (its cost
\* is computed and dropped), or None
best_from_spiral(info, pad, canvas, avg, keys, placed, used) ==
    LET ok == {i \in 1..(7 * 8) :
                  admissible(info, spiral_slot(info.index, info.anchor, avg, i),
                             pad, canvas, placed, used)}
    IN  IF ok = {} THEN None
        ELSE LET f == CHOOSE i \in ok : \A j \in ok : i <= j
                 ev == evaluate_slot(info, spiral_slot(info.index, info.anchor, avg, f),
                                     pad, canvas, avg, keys, placed, used)
             IN  [slot |-> ev.slot, rect |-> ev.rect]

\* _choose_slot: narrowed candidates, else perimeter fallback, else spiral.
\* The result carries the stage that produced it.
choose_slot(info, slot_list, pad, canvas, avg, keys, placed, used) ==
    LET c1 == best_from_candidates(info, candidate_slots(slot_list, info),
                                   pad, canvas, avg, keys, placed, used)
    IN  IF c1 # None THEN [slot |-> c1.slot, rect |-> c1.rect, via |-> "candidates"]
        ELSE
    LET c2 == best_from_candidates(info, fallback_slots(info.index, pad, canvas, avg),
                                   pad, canvas, avg, keys, placed, used)
    IN  IF c2 # None THEN [slot |-> c2.slot, rect |-> c2.rect, via |-> "fallback"]
        ELSE
    LET c3 == best_from_spiral(info, pad, canvas, avg, keys, placed, used)
    IN  IF c3 # None THEN [slot |-> c3.slot, rect |-> c3.rect, via |-> "spiral"]
        ELSE None

(***************************************************************************)
(* Inputs of the assigner drawn by SpecAssign.                             *)
(***************************************************************************)
\* canvas_bounds and padding handed to the constructor
Scenes == {[canvas |-> [w |-> 24, h |-> 6],  padding |-> 1],
           [canvas |-> [w |-> 24, h |-> 12], padding |-> 2]}

SlotPool == {
    [position |-> Pt(6, 3),  region_type |-> "INTER_KEY", clearance_score |-> 1 * Precision],
    [position |-> Pt(19, 3), region_type |-> "EXTERIOR",  clearance_score |-> 2 * Precision],
    [position |-> Pt(30, 9), region_type |-> "EXTERIOR",  clearance_score |-> 5 * Precision] }

\* rect_w, rect_h, anchor, len(combo_widgets), adjacent
InfoPool == {
    [rect_w |-> 10, rect_h |-> 4, anchor |-> Pt(6, 3),  nkeys |-> 2, adjacent |-> TRUE],
    [rect_w |-> 8,  rect_h |-> 4, anchor |-> Pt(19, 3), nkeys |-> 3, adjacent |-> FALSE],
    [rect_w |-> 4,  rect_h |-> 4, anchor |-> Pt(13, 3), nkeys |-> 2, adjacent |-> TRUE],
    [rect_w |-> 4,  rect_h |-> 4, anchor |-> Pt(13, 3), nkeys |-> 3, adjacent |-> FALSE],
    [rect_w |-> 22, rect_h |-> 4, anchor |-> Pt(13, 3), nkeys |-> 2, adjacent |-> TRUE],
    [rect_w |-> 26, rect_h |-> 4, anchor |-> Pt(13, 3), nkeys |-> 2, adjacent |-> FALSE],
    [rect_w |-> 8,  rect_h |-> 4, anchor |-> Pt(6, 3),  nkeys |-> 3, adjacent |-> TRUE] }

SeqsUpTo(S, n) == UNION {[1..k -> S] : k \in 0..n}

IsInjective(f) == \A i, j \in DOMAIN f : f[i] = f[j] => i = j

\* self.slots = list(slots): the id of a Slot object is its place in the list
SlotLists ==
    {[i \in DOMAIN q |-> Slot(q[i].position, q[i].region_type,
                              q[i].clearance_score, <<"slots", 0, i>>)] :
        q \in {p \in SeqsUpTo(SlotPool, MaxSlots) : IsInjective(p)}}

\* ComboInfoBuilder.build: index is the place in the list, from 0
InfoLists ==
    {[i \in DOMAIN q |-> [index |-> i - 1, rect_w |-> q[i].rect_w,
                          rect_h |-> q[i].rect_h, anchor |-> q[i].anchor,
                          nkeys |-> q[i].nkeys, adjacent |-> q[i].adjacent]] :
        q \in SeqsUpTo(InfoPool, MaxCombos) \ {<<>>}}

(***************************************************************************)
(* GeometryUtils and ConnectorRouter (widgets/connector_routing).          *)
(* Points are <<x, y>>.  The operators take u, the number of model units   *)
(* in 1.0 of the source, so that the source's absolute thresholds (0.01,   *)
(* margin 2.0) keep their size whatever the resolution of the inputs.      *)
(***************************************************************************)
\* model units per 1.0 of the source in the router's own specification:
\* one unit is 0.01, the threshold of _normalize_path
RouterUnit == 100

\* GeometryUtils.distance in model units, rounded down
distance(p1, p2) ==
    LET dx == Abs(p1[1] - p2[1])
        dy == Abs(p1[2] - p2[2])
    IN  Isqrt(Sq(dx, dy), Max(dx, dy), dx + dy)

\* 1 when distance(p1, p2) was rounded down, 0 when it is exact: the root of
\* an integer is rational only when the integer is a square
distance_inexact(p1, p2) ==
    LET d == distance(p1, p2)
    IN  IF d * d = Sq(p1[1] - p2[1], p1[2] - p2[2]) THEN 0 ELSE 1

cross(a, b, c) ==
    (b[1] - a[1]) * (c[2] - a[2]) - (b[2] - a[2]) * (c[1] - a[1])

segments_intersect(p1, p2, p3, p4) ==
    LET d1 == cross(p3, p4, p1)
        d2 == cross(p3, p4, p2)
        d3 == cross(p1, p2, p3)
        d4 == cross(p1, p2, p4)
    IN  /\ (d1 > 0 /\ d2 < 0) \/ (d1 < 0 /\ d2 > 0)
        /\ (d3 > 0 /\ d4 < 0) \/ (d3 < 0 /\ d4 > 0)

\* QRectF.contains(QPointF): edges included, false for a rectangle of zero extent
Contains(r, p) ==
    /\ r.w # 0 /\ r.h # 0
    /\ r.x <= p[1] /\ p[1] <= Right(r)
    /\ r.y <= p[2] /\ p[2] <= Bottom(r)

line_intersects_rect(u, p1, p2, rect) ==
    LET margin == 2 * u
        expanded == Rect(rect.x - margin, rect.y - margin,
                         rect.w + 2 * margin, rect.h + 2 * margin)
        tl == Pt(expanded.x, expanded.y)
        tr == Pt(Right(expanded), expanded.y)
        br == Pt(Right(expanded), Bottom(expanded))
        bl == Pt(expanded.x, Bottom(expanded))
    IN  \/ Contains(expanded, p1)
        \/ Contains(expanded, p2)
        \/ segments_intersect(p1, p2, tl, tr)
        \/ segments_intersect(p1, p2, tr, br)
        \/ segments_intersect(p1, p2, br, bl)
        \/ segments_intersect(p1, p2, bl, tl)

\* min(s, key=...): the first element of a non-empty sequence whose key is
\* least; keys[i] is the key of s[i]
FirstMin(s, keys) ==
    s[CHOOSE i \in 1..Len(s) :
        /\ \A j \in 1..Len(s) : keys[i] <= keys[j]
        /\ \A j \in 1..(i - 1) : keys[j] > keys[i]]

\* _closest_edge_point; the minimum over distances is taken over their squares
closest_edge_point(rect, point, inset) ==
    LET px == point[1]
        py == point[2]
        left == rect.x + inset
        right == Right(rect) - inset
        top == rect.y + inset
        bottom == Bottom(rect) - inset
        cx2 == Center2(rect)[1]
        cy2 == Center2(rect)[2]
        onx == Max(left, Min(right, px))
        ony == Max(top, Min(bottom, py))
        candidates ==
            (IF 2 * py <= cy2 THEN <<Pt(onx, rect.y)>> ELSE <<>>) \o
            (IF 2 * py >= cy2 THEN <<Pt(onx, Bottom(rect))>> ELSE <<>>) \o
            (IF 2 * px <= cx2 THEN <<Pt(rect.x, ony)>> ELSE <<>>) \o
            (IF 2 * px >= cx2 THEN <<Pt(Right(rect), ony)>> ELSE <<>>)
    IN  FirstMin(candidates,
                 [i \in 1..Len(candidates) |->
                     Sq(candidates[i][1] - px, candidates[i][2] - py)])

\* _find_key_connection_point: inset = min(width, height) * 0.25
find_key_connection_point(key_rect, from_point) ==
    closest_edge_point(key_rect, from_point, Min(key_rect.w, key_rect.h) \div 4)

\* GeometryUtils.distance(pt, kept) > 0.01
apart(u, a, b) == Sq(a[1] - b[1], a[2] - b[2]) > (u * u) \div 10000

\* abs(a - b) < 0.01
same_coord(u, a, b) == 100 * Abs(a - b) < u

RECURSIVE dedupe(_, _, _)
dedupe(u, points, deduped) ==
    IF points = <<>> THEN deduped
    ELSE IF apart(u, Head(points), deduped[Len(deduped)])
         THEN dedupe(u, Tail(points), Append(deduped, Head(points)))
         ELSE dedupe(u, Tail(points), deduped)

RECURSIVE drop_collinear(_, _, _, _)
drop_collinear(u, deduped, i, simplified) ==
    IF i > Len(deduped) - 1 THEN simplified
    ELSE LET prev_pt == simplified[Len(simplified)]
             curr_pt == deduped[i]
             next_pt == deduped[i + 1]
             same_x == /\ same_coord(u, prev_pt[1], curr_pt[1])
                       /\ same_coord(u, curr_pt[1], next_pt[1])
             same_y == /\ same_coord(u, prev_pt[2], curr_pt[2])
                       /\ same_coord(u, curr_pt[2], next_pt[2])
         IN  IF same_x \/ same_y
             THEN drop_collinear(u, deduped, i + 1, simplified)
             ELSE drop_collinear(u, deduped, i + 1, Append(simplified, curr_pt))

normalize_path(u, points) ==
    IF points = <<>> THEN points
    ELSE LET deduped == dedupe(u, Tail(points), <<Head(points)>>)
         IN  IF Len(deduped) < 3 THEN deduped
             ELSE Append(drop_collinear(u, deduped, 2, <<deduped[1]>>),
                         deduped[Len(deduped)])

segment_crossings(u, rects, p1, p2, target_key_rect) ==
    Cardinality({i \in 1..Len(rects) :
        /\ rects[i] # target_key_rect
        /\ line_intersects_rect(u, p1, p2, rects[i])})

path_cost(u, rects, path, target_key_rect) ==
    SumSeq([i \in 1..(Len(path) - 1) |->
        segment_crossings(u, rects, path[i], path[i + 1], target_key_rect)])

\* _path_length as <<sum of the rounded-down segment lengths, number of segments
\* whose length was rounded down>>.  A normalised L-shaped path has at most one
\* segment that is not axis-parallel, so comparing these pairs in order is
\* comparing the lengths.
path_length(path) ==
    <<SumSeq([i \in 1..(Len(path) - 1) |-> distance(path[i], path[i + 1])]),
      SumSeq([i \in 1..(Len(path) - 1) |-> distance_inexact(path[i], path[i + 1])])>>

\* (crossings, length, len(path))
path_score(u, rects, path, target_key_rect) ==
    <<path_cost(u, rects, path, target_key_rect),
      path_length(path)[1], path_length(path)[2], Len(path)>>

RECURSIVE TupleLeq(_, _)
\* Python's <= on two tuples of the same length
TupleLeq(a, b) ==
    IF a = <<>> THEN TRUE
    ELSE IF Head(a) # Head(b) THEN Head(a) < Head(b)
    ELSE TupleLeq(Tail(a), Tail(b))

build_simple_path(u, rects, start, end, target_key_rect) ==
    LET corner1 == Pt(end[1], start[2])
        corner2 == Pt(start[1], end[2])
        path1 == normalize_path(u, <<start, corner1, end>>)
        path2 == normalize_path(u, <<start, corner2, end>>)
        score1 == path_score(u, rects, path1, target_key_rect)
        score2 == path_score(u, rects, path2, target_key_rect)
    IN  IF TupleLeq(score1, score2) THEN path1 ELSE path2

\* ConnectorRouter.route for a router built as keyboard_widget.py builds it:
\* no gap_intersections, so route() returns the simple path
route(u, rects, label_center, key_rect) ==
    build_simple_path(u, rects, label_center,
                      find_key_connection_point(key_rect, label_center), key_rect)

(***************************************************************************)
(* RoutingGrid (widgets/alt_combos/routing_grid.py).  A grid is a record   *)
(* with the fields of the object; cells are <<col, row>>.                  *)
(***************************************************************************)
BLOCKED == 1000
NEAR_KEY_COST == 10
BASE_COST == 1

\* int(a / b) for b > 0: Python's int() truncates toward zero
TruncDiv(a, b) == IF a >= 0 THEN a \div b ELSE -((-a) \div b)

Cells(g) == (0..(g.cols - 1)) \X (0..(g.rows - 1))

\* RoutingGrid.__init__
new_grid(boundary, cell_size) ==
    LET cols == Max(1, TruncDiv(boundary.w, cell_size) + 1)
        rows == Max(1, TruncDiv(boundary.h, cell_size) + 1)
    IN  [boundary |-> boundary, cell_size |-> cell_size,
         cols |-> cols, rows |-> rows,
         costs |-> [cell \in (0..(cols - 1)) \X (0..(rows - 1)) |-> BASE_COST],
         used_cells |-> {}]

world_to_grid(g, point) ==
    <<TruncDiv(point[1] - g.boundary.x, g.cell_size),
      TruncDiv(point[2] - g.boundary.y, g.cell_size)>>

\* the cells the two range() loops of _mark_rect_blocked / _mark_rect_edges visit
rect_cells(g, rect) ==
    LET mn == world_to_grid(g, Pt(rect.x, rect.y))
        mx == world_to_grid(g, Pt(Right(rect), Bottom(rect)))
    IN  {cell \in Cells(g) :
            /\ Max(0, mn[1]) <= cell[1] /\ cell[1] < Min(g.cols, mx[1] + 1)
            /\ Max(0, mn[2]) <= cell[2] /\ cell[2] < Min(g.rows, mx[2] + 1)}

mark_rect_blocked(g, rect) ==
    [g EXCEPT !.costs = [cell \in DOMAIN g.costs |->
        IF cell \in rect_cells(g, rect) THEN BLOCKED ELSE g.costs[cell]]]

mark_rect_edges(g, rect, pad) ==
    LET expanded == Rect(rect.x - pad, rect.y - pad, rect.w + 2 * pad, rect.h + 2 * pad)
    IN  [g EXCEPT !.costs = [cell \in DOMAIN g.costs |->
            IF cell \in rect_cells(g, expanded) /\ g.costs[cell] < BLOCKED
            THEN Max(g.costs[cell], NEAR_KEY_COST) ELSE g.costs[cell]]]

RECURSIVE mark_obstacles(_, _, _)
mark_obstacles(g, rects, pad) ==
    IF rects = <<>> THEN g
    ELSE mark_obstacles(mark_rect_edges(mark_rect_blocked(g, Head(rects)), Head(rects), pad),
                        Tail(rects), pad)

in_bounds(g, cell) ==
    0 <= cell[1] /\ cell[1] < g.cols /\ 0 <= cell[2] /\ cell[2] < g.rows

get_cost(g, cell) ==
    IF ~in_bounds(g, cell) THEN BLOCKED
    ELSE g.costs[cell] + (IF cell \in g.used_cells THEN 5 ELSE 0)

is_blocked(g, cell) == get_cost(g, cell) >= BLOCKED

mark_used(g, cells) ==
    [g EXCEPT !.used_cells = g.used_cells \cup {cells[i] : i \in 1..Len(cells)}]

(***************************************************************************)
(* Pathfinder (widgets/alt_combos/pathfinder.py).                          *)
(***************************************************************************)
DIRECTIONS == <<<<0, -1>>, <<1, 0>>, <<0, 1>>, <<-1, 0>>>>

\* max_radius, the default argument of _find_nearest_unblocked
max_radius == 20

\* Python's None where a cell or a state tuple is expected
NoCell == <<>>

\* float('inf') and the finite costs
INF == [inf |-> TRUE, value |-> 0]
Finite(v) == [inf |-> FALSE, value |-> v]

\* the offsets (dc, dr) of one ring in the order the two loops visit them:
\* dc outer, dr inner, cells off the ring skipped; only the corners of the
\* ring in the variant
ring_offsets_corners_only(radius) ==
    LET side == 2 * radius + 1
        all == [k \in 1..(side * side) |->
                   <<((k - 1) \div side) - radius, ((k - 1) % side) - radius>>]
    IN  SelectSeq(all, LAMBDA o : Abs(o[1]) = radius /\ Abs(o[2]) = radius)

ring_offsets(radius) ==
    LET side == 2 * radius + 1
        all == [k \in 1..(side * side) |->
                   <<((k - 1) \div side) - radius, ((k - 1) % side) - radius>>]
    IN  SelectSeq(all, LAMBDA o : Abs(o[1]) = radius \/ Abs(o[2]) = radius)

RingTable == [radius \in 1..max_radius |-> ring_offsets(radius)]

RECURSIVE spiral(_, _, _)
\* the radius loop of _find_nearest_unblocked; rings is the number of rings
\* examined when it returns
spiral(g, pos, radius) ==
    IF radius > max_radius THEN [cell |-> NoCell, rings |-> radius - 1]
    ELSE LET hits == SelectSeq(RingTable[radius],
                        LAMBDA o : ~is_blocked(g, <<pos[1] + o[1], pos[2] + o[2]>>))
         IN  IF hits # <<>>
             THEN [cell |-> <<pos[1] + hits[1][1], pos[2] + hits[1][2]>>,
                   rings |-> radius]
             ELSE spiral(g, pos, radius + 1)

find_nearest_unblocked(g, pos) ==
    IF ~is_blocked(g, pos) THEN [cell |-> pos, rings |-> 0]
    ELSE spiral(g, pos, 1)

\* a heuristic that overestimates the remaining cost
heuristic_overestimating(pos, goal) ==
    20 * (Abs(pos[1] - goal[1]) + Abs(pos[2] - goal[2]))

\* _heuristic: Manhattan distance
heuristic(pos, goal) == Abs(pos[1] - goal[1]) + Abs(pos[2] - goal[2])

direct_fallback(start, goal) ==
    [path |-> <<start, goal>>, cost |-> INF, raised |-> FALSE]

\* heap entries are <<f, g, col, row, direction, parent>>, parent a state
\* <<col, row, direction>> or NoCell for None
entry_key(e) == <<e[1], e[2], e[3], e[4], e[5]>>

\* heapq orders entries as tuples; two entries equal up to the parent make it
\* compare the parents, and None < tuple raises TypeError
heap_raises(open_set) ==
    \E a, b \in open_set :
        /\ a # b
        /\ entry_key(a) = entry_key(b)
        /\ (a[6] = NoCell) # (b[6] = NoCell)

heap_min(open_set) ==
    CHOOSE e \in open_set : \A o \in open_set \ {e} :
        \/ SeqLess(entry_key(e), entry_key(o))
        \/ entry_key(e) = entry_key(o) /\ SeqLess(e[6], o[6])

RECURSIVE reconstruct_path(_, _, _)
\* path is built backwards and reversed: here each cell is put in front
reconstruct_path(came_from, state, path) ==
    IF state = NoCell THEN path
    ELSE reconstruct_path(came_from,
                          IF state \in DOMAIN came_from THEN came_from[state] ELSE NoCell,
                          <<(<<state[1], state[2]>>)>> \o path)

\* the heap entry of the neighbour in direction d
neighbor_entry(g, bend_penalty, col, row, direction, gval, goal, state, d) ==
    LET nc == col + DIRECTIONS[d + 1][1]
        nr == row + DIRECTIONS[d + 1][2]
        move_cost == get_cost(g, <<nc, nr>>)
                     + (IF d # direction THEN bend_penalty ELSE 0)
        ng == gval + move_cost
    IN  <<ng + heuristic(<<nc, nr>>, goal), ng, nc, nr, d, state>>

\* the entries pushed when the blocked test of _expand_neighbors is left out
expand_neighbors_through_keys(g, bend_penalty, col, row, direction, gval, goal, g_score, state) ==
    {e \in {neighbor_entry(g, bend_penalty, col, row, direction, gval, goal, state, d) :
                d \in 0..3} :
        /\ in_bounds(g, <<e[3], e[4]>>)
        /\ ~(/\ <<e[3], e[4], e[5]>> \in DOMAIN g_score
             /\ g_score[<<e[3], e[4], e[5]>>] <= e[2])}

\* the entries _expand_neighbors pushes
expand_neighbors(g, bend_penalty, col, row, direction, gval, goal, g_score, state) ==
    {e \in {neighbor_entry(g, bend_penalty, col, row, direction, gval, goal, state, d) :
                d \in 0..3} :
        /\ ~is_blocked(g, <<e[3], e[4]>>)
        /\ ~(/\ <<e[3], e[4], e[5]>> \in DOMAIN g_score
             /\ g_score[<<e[3], e[4], e[5]>>] <= e[2])}

RECURSIVE astar_loop(_, _, _, _, _, _, _)
\* the while loop of _run_astar.  The heap is a set: no entry is pushed twice,
\* because a state is expanded once and each push carries its parent state.
astar_loop(g, bend_penalty, start, goal, open_set, g_score, came_from) ==
    IF open_set = {} THEN direct_fallback(start, goal)
    ELSE IF heap_raises(open_set)
    THEN [path |-> <<>>, cost |-> INF, raised |-> TRUE]
    ELSE LET e == heap_min(open_set)
             rest == open_set \ {e}
             state == <<e[3], e[4], e[5]>>
         IN  IF state \in DOMAIN g_score /\ g_score[state] <= e[2]
             THEN astar_loop(g, bend_penalty, start, goal, rest, g_score, came_from)
             ELSE LET gs == (state :> e[2]) @@ g_score
                      cf == (state :> e[6]) @@ came_from
                  IN  IF <<e[3], e[4]>> = goal
                      THEN [path |-> reconstruct_path(cf, state, <<>>),
                            cost |-> Finite(e[2]), raised |-> FALSE]
                      ELSE astar_loop(g, bend_penalty, start, goal,
                                      rest \cup expand_neighbors(g, bend_penalty, e[3], e[4],
                                                                 e[5], e[2], goal, gs, state),
                                      gs, cf)

run_astar(g, bend_penalty, start, goal) ==
    astar_loop(g, bend_penalty, start, goal,
               {<<heuristic(start, goal), 0, start[1], start[2], d, NoCell>> : d \in 0..3},
               <<>>, <<>>)

\* find_path, with the two results of _find_nearest_unblocked kept beside the
\* returned (path, cost)
find_path(g, bend_penalty, start, goal) ==
    LET s == find_nearest_unblocked(g, start)
        t == find_nearest_unblocked(g, goal)
        found == [nearest_start |-> s, nearest_goal |-> t]
    IN  IF s.cell = NoCell \/ t.cell = NoCell
        THEN direct_fallback(IF s.cell = NoCell THEN <<0, 0>> ELSE s.cell,
                             IF t.cell = NoCell THEN <<0, 0>> ELSE t.cell) @@ found
        ELSE run_astar(g, bend_penalty, s.cell, t.cell) @@ found

(***************************************************************************)
(* SlotGenerator (widgets/free_slots_grid/slot_generator.py).              *)
(* clearance_score is a distance: fixed point, units of 1 / Precision.     *)
(***************************************************************************)
\* SlotGenerator.__init__: slot_size
slot_size == 10

RECURSIVE United(_)
\* _compute_keyboard_bounds: QRectF.united over a non-empty list
United(rects) ==
    IF Len(rects) = 1 THEN rects[1]
    ELSE LET a == United(SubSeq(rects, 1, Len(rects) - 1))
             b == rects[Len(rects)]
             l == Min(a.x, b.x)
             t == Min(a.y, b.y)
         IN  Rect(l, t, Max(Right(a), Right(b)) - l, Max(Bottom(a), Bottom(b)) - t)

\* _compute_avg_key_size, of SlotGenerator and of KeyboardWidget
compute_avg_key_size(rects) ==
    IF rects = <<>> THEN 50
    ELSE SumSeq([i \in 1..Len(rects) |-> Max(rects[i].w, rects[i].h)]) \div Len(rects)

distance_to_rect(point, rect) ==
    Hypot(Max(Max(rect.x - point[1], 0), point[1] - Right(rect)),
          Max(Max(rect.y - point[2], 0), point[2] - Bottom(rect)))

point_inside_any_key(point, rects) ==
    \E i \in 1..Len(rects) : Contains(rects[i], point)

RECURSIVE MinSeq(_)
MinSeq(s) == IF Len(s) = 1 THEN s[1] ELSE Min(s[1], MinSeq(Tail(s)))

min_distance_to_keys(point, rects) ==
    MinSeq([i \in 1..Len(rects) |-> distance_to_rect(point, rects[i])])

\* _find_edge_gap: <<point>> or <<>> for None
find_edge_gap(rect1, rect2, avg) ==
    LET c1 == Center2(rect1)
        c2 == Center2(rect2)
        dx == Abs(c1[1] - c2[1])
        dy == Abs(c1[2] - c2[2])
    IN  IF Sq(dx, dy) > 9 * avg * avg THEN <<>>      \* dist > avg * 1.5
        ELSE IF dx > dy
        THEN <<Pt((IF c1[1] < c2[1] THEN Right(rect1) + rect2.x
                                     ELSE rect1.x + Right(rect2)) \div 2,
                  (c1[2] + c2[2]) \div 4)>>
        ELSE <<Pt((c1[1] + c2[1]) \div 4,
                  (IF c1[2] < c2[2] THEN Bottom(rect1) + rect2.y
                                     ELSE rect1.y + Bottom(rect2)) \div 2)>>

RECURSIVE FlattenSeq(_)
FlattenSeq(ss) == IF ss = <<>> THEN <<>> ELSE Head(ss) \o FlattenSeq(Tail(ss))

\* the (i, j) pairs with i < j in the order of the two loops
OrderedPairs(n) ==
    FlattenSeq([i \in 1..n |-> [k \in 1..(n - i) |-> <<i, i + k>>]])

generate_inter_key_slots(rects, avg) ==
    FlattenSeq([p \in 1..Len(OrderedPairs(Len(rects))) |->
        LET pair == OrderedPairs(Len(rects))[p]
            gap == find_edge_gap(rects[pair[1]], rects[pair[2]], avg)
        IN  IF gap # <<>> /\ ~point_inside_any_key(gap[1], rects)
            THEN <<[position |-> gap[1], region_type |-> "INTER_KEY",
                    clearance_score |-> min_distance_to_keys(gap[1], rects)]>>
            ELSE <<>>])

\* the values of a loop "v = start; while v < end: ...; v += step"
steps_below(start, end, step) ==
    IF start >= end THEN <<>>
    ELSE [k \in 1..(((end - start - 1) \div step) + 1) |-> start + (k - 1) * step]

generate_interior_slots(rects, keyboard_bounds, grid_spacing) ==
    LET xs == steps_below(keyboard_bounds.x + slot_size,
                          Right(keyboard_bounds) - slot_size, grid_spacing)
        ys == steps_below(keyboard_bounds.y + slot_size,
                          Bottom(keyboard_bounds) - slot_size, grid_spacing)
    IN  FlattenSeq([i \in 1..Len(xs) |-> FlattenSeq([j \in 1..Len(ys) |->
            LET point == Pt(xs[i], ys[j])
            IN  IF /\ ~point_inside_any_key(point, rects)
                   /\ 10 * min_distance_to_keys(point, rects) > 3 * slot_size * Precision
                THEN <<[position |-> point, region_type |-> "INTERIOR",
                        clearance_score |-> min_distance_to_keys(point, rects)]>>
                ELSE <<>>])])

generate_exterior_slots(keyboard_bounds, canvas, pad, grid_spacing) ==
    LET xs == steps_below(canvas.x + pad, Right(canvas) - pad, grid_spacing)
        ys == steps_below(canvas.y + pad, Bottom(canvas) - pad, grid_spacing)
    IN  FlattenSeq([i \in 1..Len(xs) |-> FlattenSeq([j \in 1..Len(ys) |->
            LET point == Pt(xs[i], ys[j])
            IN  IF Contains(keyboard_bounds, point) THEN <<>>
                ELSE <<[position |-> point, region_type |-> "EXTERIOR",
                        clearance_score |-> distance_to_rect(point, keyboard_bounds)]>>])])

\* generate_slots; the i-th Slot object created gets the identity <<"slots", 0, i>>
generate_slots(rects, canvas, pad) ==
    IF rects = <<>> THEN <<>>
    ELSE LET keyboard_bounds == United(rects)
             avg == compute_avg_key_size(rects)
             grid_spacing == (avg * 6) \div 10
             made == generate_inter_key_slots(rects, avg)
                     \o generate_interior_slots(rects, keyboard_bounds, grid_spacing)
                     \o generate_exterior_slots(keyboard_bounds, canvas, pad, grid_spacing)
         IN  [i \in 1..Len(made) |->
                 Slot(made[i].position, made[i].region_type,
                      made[i].clearance_score, <<"slots", 0, i>>)]

(***************************************************************************)
(* KeyWidget (widgets/keyboard_widget.py).  Keys are 1u x 1u, unrotated,   *)
(* not decals and common to all layout options.  A font is a record of the *)
(* numbers the code derives from it: pitch is self.size of a key, box the  *)
(* side of polygon.boundingRect(); the ratio constants that link them to   *)
(* fontMetrics().height() are in constants.py.                             *)
(***************************************************************************)
\* KeyWidget.__init__
new_key_widget(desc, font) ==
    [desc |-> desc, scale |-> font, shift_x |-> 0, shift_y |-> 0]

update_position(w, font, shift_x, shift_y) ==
    [w EXCEPT !.scale = font, !.shift_x = shift_x, !.shift_y = shift_y]

\* self.x, self.y
widget_x(w) == w.scale.pitch * w.desc.x
widget_y(w) == w.scale.pitch * w.desc.y

\* polygon.boundingRect(): calculate_bbox of self.rect, translated by the shift
boundingRect(w) ==
    Rect(widget_x(w) + w.shift_x, widget_y(w) + w.shift_y, w.scale.box, w.scale.box)

\* [w.polygon.boundingRect() for w in ids]
bounding_rects(store, ids) == [i \in 1..Len(ids) |-> boundingRect(store[ids[i]])]

\* place_widgets: the store after it (self.widgets is then commons)
place_widgets(store, commons, font, pad) ==
    LET s1 == [id \in DOMAIN store |->
                  IF \E i \in 1..Len(commons) : commons[i] = id
                  THEN update_position(store[id], font, 0, 0) ELSE store[id]]
        rects == bounding_rects(s1, commons)
        top_x == IF rects = <<>> THEN 0 ELSE MinSeq([i \in 1..Len(rects) |-> rects[i].x])
        top_y == IF rects = <<>> THEN 0 ELSE MinSeq([i \in 1..Len(rects) |-> rects[i].y])
    IN  [id \in DOMAIN store |->
            IF \E i \in 1..Len(commons) : commons[i] = id
            THEN update_position(s1[id], s1[id].scale,
                                 s1[id].shift_x - top_x + pad, s1[id].shift_y - top_y + pad)
            ELSE s1[id]]

\* self.widgets.sort(key=lambda w: (w.y, w.x))
widget_sort_key(w) == <<widget_y(w), widget_x(w)>>

\* update_layout: the fields it writes
update_layout(store, commons, font, pad, sc) ==
    LET s1 == place_widgets(store, commons, font, pad)
        sorted == SortByKey(commons, [i \in 1..Len(commons) |-> widget_sort_key(s1[commons[i]])])
        avg == compute_avg_key_size(bounding_rects(s1, sorted))
        slot_padding == (avg * 8) \div 10
        s2 == [id \in DOMAIN s1 |->
                  IF \E i \in 1..Len(sorted) : sorted[i] = id
                  THEN update_position(s1[id], s1[id].scale,
                                       s1[id].shift_x + slot_padding,
                                       s1[id].shift_y + slot_padding)
                  ELSE s1[id]]
        rects == bounding_rects(s2, sorted)
        max_w == IF rects = <<>> THEN 0
                 ELSE -MinSeq([i \in 1..Len(rects) |-> -Right(rects[i])])
        max_h == IF rects = <<>> THEN 0
                 ELSE -MinSeq([i \in 1..Len(rects) |-> -Bottom(rects[i])])
        total_padding == pad + slot_padding
        w == (max_w + total_padding) * sc
        h == (max_h + total_padding) * sc
        canvas == Rect(0, 0, w \div sc, h \div sc)
    IN  [store |-> s2, widgets |-> sorted, width |-> w, height |-> h,
         \* _generate_free_slots
         canvas_bounds |-> IF sorted = <<>> THEN <<>> ELSE <<canvas>>,
         free_slots |-> IF sorted = <<>> THEN <<>>
                        ELSE generate_slots(rects, canvas, (avg * 4) \div 10)]

(***************************************************************************)
(* KeyboardWidget: combo entries (set_combo_entries, _collect_combo_widgets)*)
(* A dict is the sequence of its (key, value) pairs in insertion order; an *)
(* optional value is <<>> for None and <<v>> otherwise.                    *)
(***************************************************************************)
\* Keycode.deserialize on the keycode names the inputs use
Deserialize(code) ==
    CASE code = "KC_NO" -> 0
      [] code = "KC_A" -> 4
      [] code = "KC_B" -> 5
      [] code = "KC_C" -> 6
      [] OTHER -> 27

\* KeycodeDisplay.get_label on the keycode names the inputs use
GetLabel(code) == IF code = "KC_X" THEN "X" ELSE "?"

\* one element of combo_entries_numeric, for the entry at 0-based position idx
numeric_entry(entry, idx) ==
    LET inputs == SubSeq(entry, 1, Min(4, Len(entry)))
        output == IF Len(entry) > 4 THEN <<entry[5]>> ELSE <<>>
    IN  [codes |-> [i \in 1..Len(inputs) |-> Deserialize(inputs[i])],
         output_label |-> IF output # <<>> /\ output[1] # "KC_NO"
                          THEN GetLabel(output[1]) ELSE "",
         combo_label |-> <<"C", idx + 1>>]

\* the loop of set_combo_entries that fills combo_entries_numeric
numeric_entries(entries) ==
    FlattenSeq([i \in 1..Len(entries) |->
        IF entries[i] = <<>> THEN <<>> ELSE <<numeric_entry(entries[i], i - 1)>>])

\* the loop of set_combo_entries that fills combo_widget_keycodes_numeric
numeric_keycodes(widget_keycodes) ==
    IF widget_keycodes = <<>> THEN <<>>
    ELSE [i \in 1..Len(widget_keycodes[1]) |->
             <<widget_keycodes[1][i][1], Deserialize(widget_keycodes[1][i][2])>>]

\* keycode_to_widgets.get(code, [])
widgets_of_code(keycodes_numeric, code) ==
    LET hits == SelectSeq(keycodes_numeric, LAMBDA p : p[2] # 0 /\ p[2] = code)
    IN  [i \in 1..Len(hits) |-> hits[i][1]]

RECURSIVE resolve_keycodes(_, _, _)
\* the inner loop of _collect_combo_widgets: the widgets of one combo,
\* <<>> as soon as one keycode has no widget
resolve_keycodes(keycodes_numeric, keycodes, picked) ==
    IF keycodes = <<>> THEN picked
    ELSE LET candidates == widgets_of_code(keycodes_numeric, Head(keycodes))
             unused == SelectSeq(candidates,
                           LAMBDA c : \A i \in 1..Len(picked) : picked[i] # c)
         IN  IF candidates = <<>> THEN <<>>
             ELSE resolve_keycodes(keycodes_numeric, Tail(keycodes),
                      Append(picked, IF unused # <<>> THEN unused[1] ELSE candidates[1]))

collect_combo_widgets(entries_numeric, keycodes_numeric) ==
    IF entries_numeric = <<>> \/ keycodes_numeric = <<>> THEN <<>>
    ELSE FlattenSeq([i \in 1..Len(entries_numeric) |->
            LET keycodes == SelectSeq(entries_numeric[i].codes, LAMBDA c : c # 0)
                picked == IF Len(keycodes) < 2 THEN <<>>
                          ELSE resolve_keycodes(keycodes_numeric, keycodes, <<>>)
            IN  IF picked = <<>> THEN <<>>
                ELSE <<[widgets |-> picked,
                        output_label |-> entries_numeric[i].output_label,
                        combo_label |-> entries_numeric[i].combo_label]>>])

(***************************************************************************)
(* ComboInfoBuilder (widgets/combo_label_placement/combo_info_builder.py). *)
(***************************************************************************)
\* math.hypot between two centres <= avg_size * 1.7, on doubled centres
within_threshold(c1, c2, avg_size) ==
    100 * Sq(c1[1] - c2[1], c1[2] - c2[2]) <= 4 * 289 * avg_size * avg_size

RECURSIVE flood(_, _, _)
\* the visited set of _is_adjacent once the stack is empty
flood(centers2, avg_size, visited) ==
    LET more == {j \in 1..Len(centers2) :
                    /\ j \notin visited
                    /\ \E i \in visited : within_threshold(centers2[j], centers2[i], avg_size)}
    IN  IF more = {} THEN visited ELSE flood(centers2, avg_size, visited \cup more)

\* a variant without the fill: every key has to be within the threshold of key 0
is_adjacent_of_first_key(centers2, avg_size) ==
    IF Len(centers2) <= 1 THEN FALSE
    ELSE \A j \in 1..Len(centers2) : within_threshold(centers2[j], centers2[1], avg_size)

is_adjacent(centers2, avg_size) ==
    IF Len(centers2) <= 1 THEN FALSE
    ELSE Cardinality(flood(centers2, avg_size, {1})) = Len(centers2)

\* _rect_height, computed in hundredths
rect_height(avg_size, output_label, combo_label, font) ==
    LET rect_h == 40 * avg_size
        label_height == IF output_label # "" THEN 100 * font.label_height ELSE 0
        name_height == 100 * font.name_height
        text_gap == IF output_label # "" THEN Max(100, 15 * font.name_height) ELSE 0
        needed == name_height + label_height + text_gap + 2 * Max(150, 5 * avg_size)
    IN  Max(rect_h, needed) \div 100

\* _build_one
build_one(store, index, combo, font) ==
    LET rects == bounding_rects(store, combo.widgets)
        n == Len(rects)
        centers2 == [i \in 1..n |-> Center2(rects[i])]
        avg_size == SumSeq([i \in 1..n |-> store[combo.widgets[i]].scale.pitch]) \div n
    IN  [index |-> index, combo_widgets |-> combo.widgets, nkeys |-> n,
         output_label |-> combo.output_label, combo_label |-> combo.combo_label,
         rect_w |-> avg_size \div 2,
         rect_h |-> rect_height(avg_size, combo.output_label, combo.combo_label, font),
         avg_size |-> avg_size, bbox |-> United(rects),
         anchor |-> Pt(SumSeq([i \in 1..n |-> centers2[i][1]]) \div (2 * n),
                       SumSeq([i \in 1..n |-> centers2[i][2]]) \div (2 * n)),
         adjacent |-> is_adjacent(centers2, avg_size)]

\* ComboInfoBuilder.build
build_infos(store, combos, font) ==
    [i \in 1..Len(combos) |-> build_one(store, i - 1, combos[i], font)]

(***************************************************************************)
(* KeyboardWidget._compute_combo_cache.                                    *)
(***************************************************************************)
RECURSIVE assign_loop(_, _, _, _, _, _, _, _, _)
\* one pass of the loop of assign: choice is what _choose_slot returned for
\* the first info
assign_one(infos, slot_list, pad, canvas, avg, keys, placed, used, result, choice) ==
    IF choice # None
    THEN assign_loop(Tail(infos), slot_list, pad, canvas, avg, keys,
                     Append(placed, choice.rect), used \cup {choice.slot.id},
                     (Head(infos).index :> [slot |-> choice.slot,
                                            rect |-> choice.rect]) @@ result)
    ELSE assign_loop(Tail(infos), slot_list, pad, canvas, avg, keys,
                     placed, used, result)

\* ComboSlotAssigner.assign as one call: the dict it returns
assign_loop(infos, slot_list, pad, canvas, avg, keys, placed, used, result) ==
    IF infos = <<>> THEN result
    ELSE assign_one(infos, slot_list, pad, canvas, avg, keys, placed, used, result,
                    choose_slot(Head(infos), slot_list, pad, canvas, avg, keys,
                                placed, used))

assign(infos, slot_list, pad, canvas, avg, keys) ==
    assign_loop(sorted_infos(infos), slot_list, pad, canvas, avg, keys, <<>>, {}, <<>>)

\* ConnectorRouter.__init__: the attributes of the object
new_connector_router(rects, avg) ==
    [key_rects |-> rects, avg_key_size |-> avg, gap_intersections |-> <<>>,
     tolerance |-> avg \div 4]

\* the routing loop: one cache entry per combo that has an assignment
routing_loop(store, infos, assigned, router) ==
    FlattenSeq([i \in 1..Len(infos) |->
        IF infos[i].index \notin DOMAIN assigned THEN <<>>
        ELSE LET rect == assigned[infos[i].index].rect
                 center == Pt(Center2(rect)[1] \div 2, Center2(rect)[2] \div 2)
             IN  <<[rect |-> rect, slot |-> assigned[infos[i].index].slot,
                    connector_paths |->
                        IF infos[i].adjacent THEN <<>>
                        ELSE [k \in 1..Len(infos[i].combo_widgets) |->
                                 route(1, router.key_rects, center,
                                       boundingRect(store[infos[i].combo_widgets[k]]))],
                    output_label |-> infos[i].output_label,
                    combo_label |-> infos[i].combo_label,
                    avg_size |-> infos[i].avg_size,
                    adjacent |-> infos[i].adjacent]>>])

\* the ComboInfo list and the assigned a computation works on
layout_infos(store, entries_numeric, keycodes_numeric, font) ==
    build_infos(store, collect_combo_widgets(entries_numeric, keycodes_numeric), font)

layout_assignments(store, ids, slot_list, pad, w, h, sc, infos) ==
    LET rects == bounding_rects(store, ids)
    IN  assign(infos, slot_list, pad, Rect(0, 0, w \div sc, h \div sc),
               compute_avg_key_size(rects), rects)

\* _compute_combo_cache: [raised, value].  Line 773 reads
\* connector_router.graph: AttributeError unless the object has the attribute.
compute_combo_cache(store, ids, slot_list, pad, w, h, sc, entries, keycodes, font) ==
    LET combos == collect_combo_widgets(entries, keycodes)
        infos == build_infos(store, combos, font)
        rects == bounding_rects(store, ids)
        assigned == layout_assignments(store, ids, slot_list, pad, w, h, sc, infos)
        router == new_connector_router(rects, compute_avg_key_size(rects))
    IN  IF combos = <<>> THEN [raised |-> FALSE, value |-> <<>>]
        ELSE IF "graph" \notin DOMAIN router THEN [raised |-> TRUE, value |-> <<>>]
        ELSE [raised |-> FALSE, value |-> routing_loop(store, infos, assigned, router)]
(***************************************************************************)
(* PathSimplifier (widgets/alt_combos/path_simplifier.py).                 *)
(***************************************************************************)
MaxPathLen == 4
MaxPasses == 2

is_collinear(p1, p2, p3) ==
    LET dx1 == p2[1] - p1[1]
        dy1 == p2[2] - p1[2]
        dx2 == p3[1] - p2[1]
        dy2 == p3[2] - p2[2]
    IN  IF dx1 = 0 /\ dx2 = 0 THEN TRUE
        ELSE IF dy1 = 0 /\ dy2 = 0 THEN TRUE
        ELSE FALSE

\* the loop looks at path[i - 1], path[i], path[i + 1] of the argument,
\* whatever it has dropped before
remove_collinear(path) ==
    IF Len(path) <= 2 THEN path
    ELSE <<path[1]>>
         \o FlattenSeq([k \in 1..(Len(path) - 2) |->
                IF ~is_collinear(path[k], path[k + 1], path[k + 2])
                THEN <<path[k + 1]>> ELSE <<>>])
         \o <<path[Len(path)]>>

(***************************************************************************)
(* The flood fill of the adjacency tests, with its stack                   *)
(* (ComboInfoBuilder._is_adjacent, ComboLayoutAnalyzer.are_keys_adjacent). *)
(* Key 0 of the source is index 1 of a sequence.                           *)
(***************************************************************************)
MaxKeys == 3
MaxAdjCalls == 2

\* the keys not yet visited within the threshold of centers[index], in list order
collect_neighbors(centers2, index, avg_size, visited) ==
    SelectSeq([j \in 1..Len(centers2) |-> j],
              LAMBDA j : /\ j \notin visited
                         /\ within_threshold(centers2[j], centers2[index], avg_size))

RECURSIVE flood_fill(_, _, _, _, _)
\* the while loop: pops is the sequence of indices taken off the stack
flood_fill(centers2, avg_size, visited, stack, pops) ==
    IF stack = <<>> THEN [visited |-> visited, pops |-> pops]
    ELSE flood_fill(centers2, avg_size,
             visited \cup {collect_neighbors(centers2, stack[Len(stack)], avg_size, visited)[k] :
                 k \in 1..Len(collect_neighbors(centers2, stack[Len(stack)], avg_size, visited))},
             SubSeq(stack, 1, Len(stack) - 1)
                 \o collect_neighbors(centers2, stack[Len(stack)], avg_size, visited),
             Append(pops, stack[Len(stack)]))

\* ComboLayoutAnalyzer.are_keys_adjacent with threshold = avg_size * 1.7
are_keys_adjacent(centers2, avg_size) ==
    IF Len(centers2) <= 1 THEN TRUE
    ELSE Cardinality(flood_fill(centers2, avg_size, {1}, <<1>>, <<>>).visited) = Len(centers2)

(***************************************************************************)
(* PasswordSession (password_session.py) and the PasswordCrypto functions  *)
(* it calls (crypto/password_crypto.py).  Passwords, salts, hashes and     *)
(* keys are sequences of strings; None is <<>>.  PBKDF2 is a function of   *)
(* password and salt without collisions; the verification hash salts with  *)
(* salt + b"_verify", so it is never the key.                              *)
(***************************************************************************)
MaxRemembered == 3
MaxInstances == 2     \* PasswordSession objects created in one run
MaxBuffers == 2       \* key bytearrays created in one run

\* the names of the objects, by order of creation
ObjectNames == <<"session1", "session2", "session3", "session4">>

hash_master_password(password, salt) == <<"hash", password, salt>>

derive_key(master_password, salt) == <<"key", master_password, salt>>

\* secrets.compare_digest(computed_hash, stored_hash)
verify_master_password(password, salt, stored_hash) ==
    hash_master_password(password, salt) = stored_hash

\* the record of one call
Call(op, password, stored_hash, salt, raised, value) ==
    [op |-> op, password |-> password, stored_hash |-> stored_hash, salt |-> salt,
     raised |-> raised, value |-> value]

\* ps_last after one more call
remember(call) ==
    IF Len(ps_last) < MaxRemembered THEN Append(ps_last, call)
    ELSE Append(Tail(ps_last), call)

\* a variant of get_key without the test
get_key_raises_never(is_unlocked, derived_key) == FALSE

\* the test of get_key: not self._is_unlocked or self._derived_key is None
get_key_raises(is_unlocked, derived_key) == ~is_unlocked \/ derived_key = <<>>

\* a variant of unlock's test that compares the hash of the password alone
unlock_verifies_any_salt(master_password, stored_hash, salt) ==
    stored_hash # <<>> /\ stored_hash[2] = master_password

\* unlock's test: verify_master_password(master_password, salt, stored_hash)
unlock_verifies(master_password, stored_hash, salt) ==
    verify_master_password(master_password, salt, stored_hash)


\* a variant of secure_zero that leaves the data as it is
secure_zero_skipped(data) == data

\* secure_zero: data[i] = 0 for every i
secure_zero(data) == [i \in DOMAIN data |-> "0"]

\* the heap after lock()'s secure_zero(self._derived_key), key_buffer = 0
\* standing for None
zeroed_by_lock(heap, key_buffer) ==
    IF key_buffer # 0 THEN [heap EXCEPT ![key_buffer] = secure_zero(@)] ELSE heap

\* the fields of a PasswordSession object
SessionObject(id, derived_key, key_salt, is_unlocked, key_buffer) ==
    [id |-> id, derived_key |-> derived_key, key_salt |-> key_salt,
     is_unlocked |-> is_unlocked, key_buffer |-> key_buffer]
(***************************************************************************)
(* PasswordCrypto.generate_iv (crypto/password_crypto.py) and              *)
(* ActionPassword.serialize (macro/macro_action.py).  A bytes object is a  *)
(* sequence of numbers 0..255.                                             *)
(***************************************************************************)
IV_SIZE == 16
MaxIvCalls == 2

\* secrets.token_bytes(nbytes): a sample of the byte strings it can return,
\* constant ones and rising ones, NUL bytes included
token_bytes(nbytes) ==
    {[i \in 1..nbytes |-> (b + i * step) % 256] :
        b \in {0, 1, 127, 128, 254, 255}, step \in {0, 1}}

\* a variant with the 12-byte nonce of AES-GCM
generate_iv_of_gcm == token_bytes(12)

generate_iv == token_bytes(IV_SIZE)

SS_QMK_PREFIX == 1
SS_PASSWORD_CODE == 8
VIAL_PROTOCOL_PASSWORD_MACROS == 7
MaxCipherLen == 520

\* struct.pack("BBBB", ...): struct.error unless every number is in 0..255
struct_pack_bytes(numbers) ==
    IF \A i \in 1..Len(numbers) : numbers[i] \in 0..255
    THEN [raised |-> "", bytes |-> numbers]
    ELSE [raised |-> "struct.error", bytes |-> <<>>]

\* ActionPassword.serialize on an object whose encrypted_data and iv have the
\* given lengths: how the call ends, the four header bytes, and the number of
\* bytes (encrypted_data + iv) that follow them
serialize_password(cipher_len, iv_len, vial_protocol) ==
    LET len_lo == (cipher_len % 256) + 1
        len_hi == ((cipher_len \div 256) % 256) + 1
        header == struct_pack_bytes(<<SS_QMK_PREFIX, SS_PASSWORD_CODE, len_lo, len_hi>>)
    IN  IF vial_protocol < VIAL_PROTOCOL_PASSWORD_MACROS
        THEN [raised |-> "RuntimeError", bytes |-> <<>>, payload |-> 0]
        ELSE IF cipher_len > 65534
        THEN [raised |-> "RuntimeError", bytes |-> <<>>, payload |-> 0]
        ELSE IF header.raised # ""
        THEN [raised |-> header.raised, bytes |-> <<>>, payload |-> 0]
        ELSE [raised |-> "", bytes |-> header.bytes, payload |-> cipher_len + iv_len]


(***************************************************************************)
(* LayerDetector (editor/layer_detector.py).  A QMK id is a record of the  *)
(* parts the two regular expressions look at: the letters it starts with,  *)
(* the digits that follow them, and the text between the parentheses       *)
(* ("none" when it has no parentheses).  MO(1) is                          *)
(* [prefix |-> "MO", digits |-> "", arg |-> "1"], LT1(KC_A) is             *)
(* [prefix |-> "LT", digits |-> "1", arg |-> "KC_A"].                      *)
(***************************************************************************)
QmkId(prefix, digits, arg) == [prefix |-> prefix, digits |-> digits, arg |-> arg]

\* the strings of digits that occur, and int() of each
Digits == {"0", "1", "2", "3", "5"}

int(str) ==
    CASE str = "0" -> 0 [] str = "1" -> 1 [] str = "2" -> 2
      [] str = "3" -> 3 [] str = "5" -> 5

\* the tuple (key_type, layer_number)
LayerInfo(key_type, layer) == [key_type |-> key_type, layer |-> layer]

MOMENTARY_KEYS == {"MO", "LT"}
TOGGLE_KEYS == {"TG", "TT"}
SWITCH_KEYS == {"TO", "DF", "PDF"}
ONE_SHOT_KEYS == {"OSL"}

\* TRI_LAYER_KEYS: (key_type, layer) by id
TRI_LAYER_KEYS ==
    [id \in {QmkId("FN_MO13", "", "none"), QmkId("FN_MO23", "", "none")} |->
        IF id.prefix = "FN_MO13" THEN LayerInfo("tri_layer_1", 1)
        ELSE LayerInfo("tri_layer_2", 2)]

\* LAYER_PATTERN: ^(MO|TG|TO|TT|OSL|DF|PDF|LT\d+)\((\d+|kc)\)$
LAYER_PATTERN_matches(qmk_id) ==
    /\ \/ qmk_id.prefix \in {"MO", "TG", "TO", "TT", "OSL", "DF", "PDF"} /\ qmk_id.digits = ""
       \/ qmk_id.prefix = "LT" /\ qmk_id.digits \in Digits
    /\ qmk_id.arg \in Digits \cup {"kc"}

\* get_layer_info: None, or (key_type, layer_number)
get_layer_info(qmk_id) ==
    IF qmk_id = None THEN None
    ELSE IF qmk_id \in DOMAIN TRI_LAYER_KEYS THEN TRI_LAYER_KEYS[qmk_id]
    ELSE IF qmk_id.prefix = "LT" /\ qmk_id.digits \in Digits /\ qmk_id.arg # "none"
    THEN LayerInfo("momentary", int(qmk_id.digits))
    ELSE IF ~LAYER_PATTERN_matches(qmk_id) THEN None
    ELSE IF qmk_id.arg = "kc" THEN None
    ELSE IF qmk_id.prefix \in MOMENTARY_KEYS THEN LayerInfo("momentary", int(qmk_id.arg))
    ELSE IF qmk_id.prefix \in TOGGLE_KEYS THEN LayerInfo("toggle", int(qmk_id.arg))
    ELSE IF qmk_id.prefix \in SWITCH_KEYS THEN LayerInfo("switch", int(qmk_id.arg))
    ELSE IF qmk_id.prefix \in ONE_SHOT_KEYS THEN LayerInfo("one_shot", int(qmk_id.arg))
    ELSE None

(***************************************************************************)
(* MatrixLayerManager (editor/matrix_layer_manager.py).  The state of a    *)
(* manager is a record of its fields; a widget is the number of its key.   *)
(***************************************************************************)
Manager(keyboard, current, toggled, momentary, active_keys, tri_held) ==
    [keyboard |-> keyboard, current_layer |-> current,
     toggled_layers |-> toggled, momentary_layers |-> momentary,
     active_layer_keys |-> active_keys, tri_layer_held |-> tri_held]

\* the greatest element of a non-empty set of numbers
max(S) == CHOOSE m \in S : \A o \in S : o <= m

\* reset
reset(m) == Manager(m.keyboard, 0, {}, {}, <<>>, {})

\* set_keyboard
set_keyboard(m, keyboard) == reset([m EXCEPT !.keyboard = keyboard])

\* the current_layer setter
set_current_layer(m, layer) ==
    IF m.keyboard # None /\ 0 <= layer /\ layer < m.keyboard.layers
    THEN Manager(m.keyboard, layer, {}, {}, <<>>, {})
    ELSE m

\* _get_keycode_at_layer: keyboard.layout.get((layer, row, col))
get_keycode_at_layer(m, widget, layer) ==
    IF m.keyboard = None THEN None
    ELSE IF <<layer, widget>> \in DOMAIN m.keyboard.layout
    THEN m.keyboard.layout[<<layer, widget>>]
    ELSE None

\* _update_effective_layer
update_effective_layer(m) ==
    LET all_active == m.toggled_layers \cup m.momentary_layers
    IN  IF {"tri_layer_1", "tri_layer_2"} \subseteq m.tri_layer_held
        THEN [m EXCEPT !.current_layer = 3]
        ELSE IF "tri_layer_1" \in m.tri_layer_held THEN [m EXCEPT !.current_layer = 1]
        ELSE IF "tri_layer_2" \in m.tri_layer_held THEN [m EXCEPT !.current_layer = 2]
        ELSE IF all_active # {} THEN [m EXCEPT !.current_layer = max(all_active)]
        ELSE IF m.toggled_layers = {} /\ m.momentary_layers = {}
        THEN [m EXCEPT !.current_layer = 0]
        ELSE m

\* _handle_momentary
handle_momentary(m, layer, is_pressed) ==
    IF is_pressed THEN [m EXCEPT !.momentary_layers = @ \cup {layer}]
    ELSE [m EXCEPT !.momentary_layers = @ \ {layer}]

\* _handle_toggle
handle_toggle(m, layer) ==
    IF layer \in m.toggled_layers THEN [m EXCEPT !.toggled_layers = @ \ {layer}]
    ELSE [m EXCEPT !.toggled_layers = @ \cup {layer}]

\* _handle_switch
handle_switch(m, layer) ==
    [m EXCEPT !.current_layer = layer, !.toggled_layers = {}, !.momentary_layers = {}]

\* _handle_one_shot
handle_one_shot(m, layer) == [m EXCEPT !.current_layer = layer]

\* _handle_tri_layer
handle_tri_layer(m, key_type, is_pressed) ==
    IF is_pressed THEN [m EXCEPT !.tri_layer_held = @ \cup {key_type}]
    ELSE [m EXCEPT !.tri_layer_held = @ \ {key_type}]

\* _apply_layer_change: the manager afterwards and the value returned
apply_layer_change(m, key_type, target_layer, is_pressed) ==
    LET handled ==
            IF key_type = "momentary"
            THEN [m |-> handle_momentary(m, target_layer, is_pressed), changed |-> TRUE]
            ELSE IF key_type = "toggle" /\ is_pressed
            THEN [m |-> handle_toggle(m, target_layer), changed |-> TRUE]
            ELSE IF key_type = "switch" /\ is_pressed
            THEN [m |-> handle_switch(m, target_layer), changed |-> TRUE]
            ELSE IF key_type = "one_shot" /\ is_pressed
            THEN [m |-> handle_one_shot(m, target_layer), changed |-> TRUE]
            ELSE IF key_type \in {"tri_layer_1", "tri_layer_2"}
            THEN [m |-> handle_tri_layer(m, key_type, is_pressed), changed |-> TRUE]
            ELSE [m |-> m, changed |-> FALSE]
    IN  IF handled.changed
        THEN [m |-> update_effective_layer(handled.m), returned |-> TRUE]
        ELSE [m |-> handled.m, returned |-> FALSE]

\* _handle_key_down
handle_key_down(m, widget) ==
    LET qmk_id == get_keycode_at_layer(m, widget, m.current_layer)
        layer_info == get_layer_info(qmk_id)
    IN  IF qmk_id = None THEN [m |-> m, returned |-> FALSE]
        ELSE IF layer_info = None THEN [m |-> m, returned |-> FALSE]
        ELSE IF layer_info.layer >= m.keyboard.layers THEN [m |-> m, returned |-> FALSE]
        ELSE apply_layer_change(
                 [m EXCEPT !.active_layer_keys = (widget :> layer_info) @@ @],
                 layer_info.key_type, layer_info.layer, TRUE)

\* _handle_key_up
handle_key_up(m, widget) ==
    IF widget \notin DOMAIN m.active_layer_keys THEN [m |-> m, returned |-> FALSE]
    ELSE apply_layer_change(
             [m EXCEPT !.active_layer_keys =
                  [w \in DOMAIN @ \ {widget} |-> @[w]]],
             m.active_layer_keys[widget].key_type, m.active_layer_keys[widget].layer, FALSE)

\* process_key_press
process_key_press(m, widget, is_pressed) ==
    IF m.keyboard = None THEN [m |-> m, returned |-> FALSE]
    ELSE IF is_pressed THEN handle_key_down(m, widget)
    ELSE handle_key_up(m, widget)

(***************************************************************************)
(* Idle values: what the variables of a component hold in the              *)
(* specifications of the other components.                                 *)
(***************************************************************************)
AssignerIdle ==
    /\ slots = <<>> /\ padding = 0 /\ canvas_bounds = Rect(0, 0, 0, 0)
    /\ key_rects = <<>> /\ avg_key_size = 0 /\ combo_infos = <<>> /\ todo = <<>>
    /\ placed_rects = <<>> /\ used_slot_ids = {} /\ assignments = <<>>
    /\ placed_log = <<>>

RouterIdle ==
    /\ router_key_rects = <<>> /\ route_label_center = <<>>
    /\ route_key_rect = Rect(0, 0, 0, 0) /\ route_points = <<>>

PathfinderIdle ==
    /\ grid = new_grid(Rect(0, 0, 0, 0), 1) /\ pf_bend_penalty = 0
    /\ pf_start = NoCell /\ pf_goal = NoCell
    /\ pf_nearest_start = [cell |-> NoCell, rings |-> 0]
    /\ pf_nearest_goal = [cell |-> NoCell, rings |-> 0]
    /\ pf_path = <<>> /\ pf_cost = Finite(0) /\ pf_raised = FALSE /\ route_count = 0

WidgetIdle ==
    /\ kw_font = [pitch |-> 0, box |-> 0, name_height |-> 0, label_height |-> 0]
    /\ scale = 1 /\ kw_padding = 0
    /\ widget_store = <<>> /\ common_widgets = <<>> /\ widgets = <<>>
    /\ width = 0 /\ height = 0 /\ free_slots = <<>> /\ kw_canvas_bounds = <<>>
    /\ combo_entries = <<>> /\ last_widget_keycodes = <<>>
    /\ combo_entries_numeric = <<>> /\ combo_widget_keycodes_numeric = <<>>
    /\ show_combos = TRUE /\ combo_cache = <<>>
    /\ generation = 0 /\ computations = 0 /\ cache_inputs = <<>>
    /\ last_paint = "none"

SimplifierIdle == sp_path = <<>> /\ sp_prev = <<>> /\ sp_passes = 0

AdjacencyIdle ==
    /\ adj_centers = <<>> /\ adj_avg_size = 0 /\ adj_adjacent = <<>>
    /\ adj_analyzer = <<>> /\ adj_fill = [visited |-> {}, pops |-> <<>>]
    /\ adj_calls = 0

SessionIdle ==
    /\ ps_instance = FALSE /\ ps_derived_key = <<>> /\ ps_key_salt = <<>>
    /\ ps_is_unlocked = FALSE /\ ps_last = <<>>
    /\ ps_id = 0 /\ ps_created = 0 /\ ps_former = <<>>
    /\ ps_key_buffer = 0 /\ ps_heap = <<>>

CryptoIdle == iv = <<>> /\ iv_previous = <<>> /\ iv_calls = 0

MacroIdle ==
    /\ ap_cipher_len = 0 /\ ap_iv_len = 0 /\ ap_vial_protocol = 0
    /\ ap_serialized = [raised |-> "", bytes |-> <<>>, payload |-> 0]

LayerIdle ==
    /\ lm_keyboard = None /\ lm_current_layer = 0
    /\ lm_toggled_layers = {} /\ lm_momentary_layers = {}
    /\ lm_active_layer_keys = <<>> /\ lm_tri_layer_held = {}
    /\ lm_pressed = {} /\ lm_last = [op |-> "none", key |-> 0, returned |-> FALSE]

(***************************************************************************)
(* Specification of ComboSlotAssigner: one assign() call on drawn inputs.  *)
(***************************************************************************)
InitAssign ==
    /\ slots \in SlotLists
    /\ \E scene \in Scenes : padding = scene.padding /\ canvas_bounds = scene.canvas
    /\ key_rects = <<Rect(1, 1, 4, 4), Rect(19, 1, 4, 4)>>
    /\ avg_key_size = 10
    /\ combo_infos \in InfoLists
    /\ todo = sorted_infos(combo_infos)
    /\ placed_rects = <<>>
    /\ used_slot_ids = {}
    /\ assignments = <<>>
    /\ placed_log = <<>>
    /\ RouterIdle /\ PathfinderIdle /\ WidgetIdle
    /\ SimplifierIdle /\ AdjacencyIdle /\ SessionIdle
    /\ CryptoIdle /\ MacroIdle /\ LayerIdle

\* one iteration of assign()'s loop: _choose_slot, then _record_choice
AssignStep ==
    /\ todo # <<>>
    /\ \E info \in {Head(todo)} :
       \E choice \in {choose_slot(info, slots, padding, canvas_bounds, avg_key_size,
                                  key_rects, placed_rects, used_slot_ids)} :
           /\ todo' = Tail(todo)
           /\ IF choice # None
              THEN /\ assignments' = (info.index :> [slot |-> choice.slot, rect |-> choice.rect])
                                     @@ assignments
                   /\ placed_log' = Append(placed_log, [index |-> info.index, via |-> choice.via])
                   /\ used_slot_ids' = used_slot_ids \cup {choice.slot.id}
                   /\ placed_rects' = Append(placed_rects, choice.rect)
              ELSE UNCHANGED <<assignments, placed_log, used_slot_ids, placed_rects>>
    /\ UNCHANGED <<slots, padding, canvas_bounds, key_rects, avg_key_size, combo_infos>>
    /\ UNCHANGED <<routerVars, pathfinderVars, widgetVars,
                   simplifierVars, adjacencyVars, sessionVars,
                   cryptoVars, macroVars, layerVars>>

NextAssign == AssignStep

SpecAssign == InitAssign /\ [][NextAssign]_vars

(***************************************************************************)
(* Specification of ConnectorRouter: a router over drawn key rectangles,   *)
(* route() called for drawn label centres, as the routing loop of          *)
(* _compute_combo_cache calls it.  One unit is 0.01 of the source.         *)
(***************************************************************************)
RouterKeyRects ==
    {<<Rect(0, 0, 400, 400)>>,
     <<Rect(0, 0, 400, 400), Rect(700, 0, 400, 400)>>,
     <<Rect(0, 0, 400, 200), Rect(0, 500, 400, 400)>>}

LabelCenters ==
    {Pt(x, y) : x \in {-100, 50, 99, 100, 150, 200, 401},
                y \in {-100, -1, 0, 1, 100, 200}}

InitRouter ==
    /\ router_key_rects \in RouterKeyRects
    /\ route_label_center = <<>>
    /\ route_key_rect = Rect(0, 0, 0, 0)
    /\ route_points = <<>>
    /\ AssignerIdle /\ PathfinderIdle /\ WidgetIdle
    /\ SimplifierIdle /\ AdjacencyIdle /\ SessionIdle
    /\ CryptoIdle /\ MacroIdle /\ LayerIdle

Route ==
    /\ \E c \in LabelCenters : \E i \in 1..Len(router_key_rects) :
           /\ route_label_center' = c
           /\ route_key_rect' = router_key_rects[i]
           /\ route_points' = route(RouterUnit, router_key_rects, c, router_key_rects[i])
    /\ UNCHANGED router_key_rects
    /\ UNCHANGED <<assignerVars, pathfinderVars, widgetVars,
                   simplifierVars, adjacencyVars, sessionVars,
                   cryptoVars, macroVars, layerVars>>

NextRouter == Route

SpecRouter == InitRouter /\ [][NextRouter]_vars

(***************************************************************************)
(* Specification of Pathfinder: a grid built from drawn key rectangles as  *)
(* AltCombosRenderer._route_all_paths builds it (cell size 8, padding      *)
(* cell_size / 2, bend penalty 3), then find_path() and mark_used() for    *)
(* drawn start and goal cells, as its loop does.                           *)
(***************************************************************************)
GridKeyRects ==
    {<<>>,
     <<Rect(8, 0, 4, 16)>>,
     <<Rect(0, 0, 16, 16)>>,
     <<Rect(8, 8, 4, 4)>>,
     <<Rect(0, 0, 4, 4)>>,
     <<Rect(0, 0, 16, 4), Rect(0, 16, 16, 4), Rect(0, 8, 4, 4), Rect(16, 8, 4, 4)>>}

CellPool ==
    {<<0, 0>>, <<1, 1>>, <<2, 0>>, <<2, 2>>, <<-20, 0>>, <<-21, 0>>}

InitPathfinder ==
    /\ grid \in {mark_obstacles(new_grid(Rect(0, 0, 16, 16), 8), rects, 4) :
                    rects \in GridKeyRects}
    /\ pf_bend_penalty = 3
    /\ pf_start = NoCell /\ pf_goal = NoCell
    /\ pf_nearest_start = [cell |-> NoCell, rings |-> 0]
    /\ pf_nearest_goal = [cell |-> NoCell, rings |-> 0]
    /\ pf_path = <<>> /\ pf_cost = Finite(0) /\ pf_raised = FALSE /\ route_count = 0
    /\ AssignerIdle /\ RouterIdle /\ WidgetIdle
    /\ SimplifierIdle /\ AdjacencyIdle /\ SessionIdle
    /\ CryptoIdle /\ MacroIdle /\ LayerIdle

\* _route_single's find_path(), then grid.mark_used(route.path)
RouteSingle ==
    /\ route_count < MaxRoutes
    /\ \E s \in CellPool : \E g \in CellPool :
       \E r \in {find_path(grid, pf_bend_penalty, s, g)} :
           /\ pf_start' = s /\ pf_goal' = g
           /\ pf_nearest_start' = r.nearest_start
           /\ pf_nearest_goal' = r.nearest_goal
           /\ pf_path' = r.path /\ pf_cost' = r.cost /\ pf_raised' = r.raised
           /\ grid' = IF r.raised THEN grid ELSE mark_used(grid, r.path)
    /\ route_count' = route_count + 1
    /\ UNCHANGED pf_bend_penalty
    /\ UNCHANGED <<assignerVars, routerVars, widgetVars,
                   simplifierVars, adjacencyVars, sessionVars,
                   cryptoVars, macroVars, layerVars>>

NextPathfinder == RouteSingle

SpecPathfinder == InitPathfinder /\ [][NextPathfinder]_vars

(***************************************************************************)
(* Specification of KeyboardWidget: the calls and events that reach the    *)
(* combo layout cache, in any order.                                       *)
(***************************************************************************)
Fonts ==
    {[pitch |-> 24, box |-> 20, name_height |-> 7, label_height |-> 8],
     [pitch |-> 60, box |-> 40, name_height |-> 20, label_height |-> 22]}

Scales == {1, 2}

Paddings == {2}

\* the keys argument of set_keys: key descriptions in key units
KeySets ==
    {<<>>,
     <<[x |-> 0, y |-> 0], [x |-> 1, y |-> 0]>>,
     <<[x |-> 0, y |-> 0], [x |-> 1, y |-> 0], [x |-> 3, y |-> 0]>>}

\* the combo_entries argument of set_combo_entries
ComboTables ==
    {<<>>,
     <<(<<"KC_A", "KC_B", "KC_NO", "KC_NO", "KC_NO">>)>>,
     <<(<<"KC_A", "KC_C", "KC_NO", "KC_NO", "KC_NO">>)>>,
     <<(<<"KC_A", "KC_A", "KC_NO", "KC_NO", "KC_NO">>)>>,
     <<(<<>>), <<"KC_A", "KC_B", "KC_C", "KC_NO", "KC_NO">>,
       <<"KC_B", "KC_NO", "KC_NO", "KC_NO", "KC_X">>>>}

KeyCodes == <<"KC_A", "KC_B", "KC_C">>

\* the widget_keycodes argument of set_combo_entries: None, {} or the
\* keycode of every current widget
WidgetKeycodes ==
    {<<>>, <<(<<>>)>>,
     <<[i \in 1..Len(widgets) |-> <<widgets[i], KeyCodes[widgets[i][2]]>>]>>}

\* the inputs a computation of the combo layout reads
LayoutInputs ==
    [store |-> widget_store, widgets |-> widgets, free_slots |-> free_slots,
     combo_entries_numeric |-> combo_entries_numeric,
     combo_widget_keycodes_numeric |-> combo_widget_keycodes_numeric,
     font |-> kw_font, scale |-> scale, width |-> width, height |-> height]

InitWidget ==
    /\ kw_font \in Fonts
    /\ scale = 1
    /\ kw_padding \in Paddings
    /\ widget_store = <<>> /\ common_widgets = <<>> /\ widgets = <<>>
    /\ width = 0 /\ height = 0
    /\ combo_entries = <<>> /\ last_widget_keycodes = <<>>
    /\ combo_entries_numeric = <<>> /\ combo_widget_keycodes_numeric = <<>>
    /\ show_combos = TRUE
    /\ free_slots = <<>> /\ kw_canvas_bounds = <<>>
    /\ combo_cache = <<>>
    /\ generation = 0 /\ computations = 0 /\ cache_inputs = <<>>
    /\ last_paint = "none"
    /\ AssignerIdle /\ RouterIdle /\ PathfinderIdle
    /\ SimplifierIdle /\ AdjacencyIdle /\ SessionIdle
    /\ CryptoIdle /\ MacroIdle /\ LayerIdle

\* _invalidate_combo_cache
invalidate_combo_cache ==
    /\ combo_cache' = <<>>
    /\ computations' = 0
    /\ cache_inputs' = <<>>

\* update_layout on the given store and widget list, with font f
do_update_layout(store, ids, f) ==
    \E l \in {update_layout(store, ids, f, kw_padding, scale)} :
        /\ widget_store' = l.store
        /\ widgets' = l.widgets
        /\ width' = l.width /\ height' = l.height
        /\ free_slots' = l.free_slots
        /\ kw_canvas_bounds' = l.canvas_bounds

\* set_keys(keys, []): new KeyWidget objects, invalidation, update_layout
SetKeys ==
    /\ generation < MaxSetKeys
    /\ \E keys \in KeySets :
       LET ids == [i \in 1..Len(keys) |-> <<generation + 1, i>>]
           store == [id \in {ids[i] : i \in 1..Len(ids)} |->
                        new_key_widget(keys[id[2]], kw_font)] @@ widget_store
       IN  /\ common_widgets' = ids
           /\ do_update_layout(store, ids, kw_font)
    /\ generation' = generation + 1
    /\ invalidate_combo_cache
    /\ last_paint' = "none"
    /\ UNCHANGED <<kw_font, scale, kw_padding, combo_entries, last_widget_keycodes,
                   combo_entries_numeric, combo_widget_keycodes_numeric, show_combos>>
    /\ UNCHANGED <<assignerVars, routerVars, pathfinderVars,
                   simplifierVars, adjacencyVars, sessionVars,
                   cryptoVars, macroVars, layerVars>>

\* event(LayoutRequest) and resizeEvent: update_layout
LayoutRequest ==
    /\ do_update_layout(widget_store, common_widgets, kw_font)
    /\ last_paint' = "none"
    /\ UNCHANGED <<kw_font, scale, kw_padding, common_widgets, combo_entries,
                   last_widget_keycodes, combo_entries_numeric,
                   combo_widget_keycodes_numeric, show_combos, combo_cache,
                   generation, computations, cache_inputs>>
    /\ UNCHANGED <<assignerVars, routerVars, pathfinderVars,
                   simplifierVars, adjacencyVars, sessionVars,
                   cryptoVars, macroVars, layerVars>>

\* the font changes and event(FontChange / ApplicationFontChange) runs update_layout
FontChange ==
    /\ \E f \in Fonts \ {kw_font} :
           /\ kw_font' = f
           /\ do_update_layout(widget_store, common_widgets, f)
    /\ last_paint' = "none"
    /\ UNCHANGED <<scale, kw_padding, common_widgets, combo_entries,
                   last_widget_keycodes, combo_entries_numeric,
                   combo_widget_keycodes_numeric, show_combos, combo_cache,
                   generation, computations, cache_inputs>>
    /\ UNCHANGED <<assignerVars, routerVars, pathfinderVars,
                   simplifierVars, adjacencyVars, sessionVars,
                   cryptoVars, macroVars, layerVars>>

\* set_scale
SetScale ==
    /\ \E s \in Scales : scale' = s
    /\ last_paint' = "none"
    /\ UNCHANGED <<kw_font, kw_padding, widget_store, common_widgets, widgets, width,
                   height, free_slots, kw_canvas_bounds, combo_entries,
                   last_widget_keycodes, combo_entries_numeric,
                   combo_widget_keycodes_numeric, show_combos, combo_cache,
                   generation, computations, cache_inputs>>
    /\ UNCHANGED <<assignerVars, routerVars, pathfinderVars,
                   simplifierVars, adjacencyVars, sessionVars,
                   cryptoVars, macroVars, layerVars>>

\* set_combo_entries(combo_entries, widget_keycodes)
SetComboEntries ==
    /\ \E arg \in {<<>>} \cup {<<t>> : t \in ComboTables} :
       \E widget_keycodes \in WidgetKeycodes :
       LET new_combo_entries == IF arg = <<>> THEN <<>> ELSE arg[1]
       IN  IF new_combo_entries = combo_entries
              /\ widget_keycodes = last_widget_keycodes
           THEN UNCHANGED <<last_widget_keycodes, combo_entries, combo_entries_numeric,
                            combo_widget_keycodes_numeric, combo_cache, computations,
                            cache_inputs>>
           ELSE /\ last_widget_keycodes' = widget_keycodes
                /\ combo_entries' = new_combo_entries
                /\ combo_entries_numeric' = numeric_entries(new_combo_entries)
                /\ combo_widget_keycodes_numeric' = numeric_keycodes(widget_keycodes)
                /\ invalidate_combo_cache
    /\ last_paint' = "none"
    /\ UNCHANGED <<kw_font, scale, kw_padding, widget_store, common_widgets, widgets,
                   width, height, free_slots, kw_canvas_bounds, show_combos, generation>>
    /\ UNCHANGED <<assignerVars, routerVars, pathfinderVars,
                   simplifierVars, adjacencyVars, sessionVars,
                   cryptoVars, macroVars, layerVars>>

\* set_show_combos
SetShowCombos ==
    /\ \E enabled \in BOOLEAN : show_combos' = enabled
    /\ last_paint' = "none"
    /\ UNCHANGED <<kw_font, scale, kw_padding, widget_store, common_widgets, widgets,
                   width, height, free_slots, kw_canvas_bounds, combo_entries,
                   last_widget_keycodes, combo_entries_numeric,
                   combo_widget_keycodes_numeric, combo_cache, generation,
                   computations, cache_inputs>>
    /\ UNCHANGED <<assignerVars, routerVars, pathfinderVars,
                   simplifierVars, adjacencyVars, sessionVars,
                   cryptoVars, macroVars, layerVars>>

\* paintEvent: _draw_combos when show_combos, which computes the cache when
\* it is None
PaintEvent ==
    /\ IF show_combos /\ combo_cache = <<>>
       THEN /\ computations < MaxComputations
            /\ \E r \in {compute_combo_cache(widget_store, widgets, free_slots,
                             kw_padding, width, height, scale, combo_entries_numeric,
                             combo_widget_keycodes_numeric, kw_font)} :
                   /\ combo_cache' = IF r.raised THEN combo_cache ELSE <<r.value>>
                   /\ last_paint' = IF r.raised THEN "raised" ELSE "done"
                   /\ cache_inputs' = IF r.raised THEN cache_inputs ELSE <<LayoutInputs>>
            /\ computations' = computations + 1
       ELSE /\ last_paint' = "done"
            /\ UNCHANGED <<combo_cache, computations, cache_inputs>>
    /\ UNCHANGED <<kw_font, scale, kw_padding, widget_store, common_widgets, widgets,
                   width, height, free_slots, kw_canvas_bounds, combo_entries,
                   last_widget_keycodes, combo_entries_numeric,
                   combo_widget_keycodes_numeric, show_combos, generation>>
    /\ UNCHANGED <<assignerVars, routerVars, pathfinderVars,
                   simplifierVars, adjacencyVars, sessionVars,
                   cryptoVars, macroVars, layerVars>>

NextWidget ==
    \/ SetKeys
    \/ LayoutRequest
    \/ FontChange
    \/ SetScale
    \/ SetComboEntries
    \/ SetShowCombos
    \/ PaintEvent

SpecWidget == InitWidget /\ [][NextWidget]_vars
(***************************************************************************)
(* Specification of PathSimplifier: passes of _remove_collinear, each over *)
(* what the pass before returned, starting from a drawn raster path.       *)
(***************************************************************************)
RasterCells == {<<c, r>> : c \in 0..2, r \in 0..1}

RasterPaths == SeqsUpTo(RasterCells, MaxPathLen)

InitSimplify ==
    /\ sp_path \in RasterPaths
    /\ sp_prev = <<>>
    /\ sp_passes = 0
    /\ AssignerIdle /\ RouterIdle /\ PathfinderIdle /\ WidgetIdle
    /\ AdjacencyIdle /\ SessionIdle
    /\ CryptoIdle /\ MacroIdle /\ LayerIdle

RemoveCollinear ==
    /\ sp_passes < MaxPasses
    /\ sp_prev' = sp_path
    /\ sp_path' = remove_collinear(sp_path)
    /\ sp_passes' = sp_passes + 1
    /\ UNCHANGED <<assignerVars, routerVars, pathfinderVars, widgetVars,
                   adjacencyVars, sessionVars,
                   cryptoVars, macroVars, layerVars>>

NextSimplify == RemoveCollinear

SpecSimplify == InitSimplify /\ [][NextSimplify]_vars

(***************************************************************************)
(* Specification of the adjacency test: calls on one combo's key centres,  *)
(* each call with the centres in some order.                               *)
(***************************************************************************)
\* doubled centres of keys of size 10 on a row and a column, pitch 10;
\* the threshold is 17, so neighbours at 10 and 14.1 are joined, 20 is not
CenterPool == {<<0, 0>>, <<20, 0>>, <<40, 0>>, <<20, 20>>, <<60, 0>>}

CenterLists == {q \in SeqsUpTo(CenterPool, MaxKeys) : q # <<>>}

Reorderings(s) ==
    {[i \in 1..Len(s) |-> s[f[i]]] : f \in {g \in [1..Len(s) -> 1..Len(s)] : IsInjective(g)}}

InitAdjacency ==
    /\ adj_centers \in CenterLists
    /\ adj_avg_size = 10
    /\ adj_adjacent = <<>> /\ adj_analyzer = <<>>
    /\ adj_fill = [visited |-> {}, pops |-> <<>>]
    /\ adj_calls = 0
    /\ AssignerIdle /\ RouterIdle /\ PathfinderIdle /\ WidgetIdle
    /\ SimplifierIdle /\ SessionIdle
    /\ CryptoIdle /\ MacroIdle /\ LayerIdle

IsAdjacent ==
    /\ adj_calls < MaxAdjCalls
    /\ adj_centers' \in Reorderings(adj_centers)
    /\ adj_adjacent' = <<is_adjacent(adj_centers', adj_avg_size)>>
    /\ adj_analyzer' = <<are_keys_adjacent(adj_centers', adj_avg_size)>>
    /\ adj_fill' = flood_fill(adj_centers', adj_avg_size, {1}, <<1>>, <<>>)
    /\ adj_calls' = adj_calls + 1
    /\ UNCHANGED adj_avg_size
    /\ UNCHANGED <<assignerVars, routerVars, pathfinderVars, widgetVars,
                   simplifierVars, sessionVars,
                   cryptoVars, macroVars, layerVars>>

NextAdjacency == IsAdjacent

SpecAdjacency == InitAdjacency /\ [][NextAdjacency]_vars

(***************************************************************************)
(* Specification of PasswordSession: the calls on the singleton, in any    *)
(* order and any number of times.  The methods are called on what          *)
(* PasswordSession.instance() returns.                                     *)
(***************************************************************************)
Passwords == {"pw1", "pw2"}

\* what generate_salt can return
Salts == {"s1", "s2"}

\* the stored hashes a caller can present
StoredHashes == {hash_master_password("pw1", "s1"), hash_master_password("pw2", "s2")}

InitSession ==
    /\ ps_instance = FALSE
    /\ ps_derived_key = <<>> /\ ps_key_salt = <<>> /\ ps_is_unlocked = FALSE
    /\ ps_last = <<>>
    /\ ps_id = 0 /\ ps_created = 0 /\ ps_former = <<>>
    /\ ps_key_buffer = 0 /\ ps_heap = <<>>
    /\ AssignerIdle /\ RouterIdle /\ PathfinderIdle /\ WidgetIdle
    /\ SimplifierIdle /\ AdjacencyIdle
    /\ CryptoIdle /\ MacroIdle /\ LayerIdle

\* PasswordSession.instance(): __init__ runs when there is no instance; the
\* call returns the object
Instance ==
    /\ IF ps_instance
       THEN UNCHANGED <<ps_derived_key, ps_key_salt, ps_is_unlocked,
                        ps_id, ps_created, ps_key_buffer>>
       ELSE /\ ps_created < MaxInstances
            /\ ps_created' = ps_created + 1
            /\ ps_id' = ps_created + 1
            /\ ps_derived_key' = <<>> /\ ps_key_salt' = <<>> /\ ps_is_unlocked' = FALSE
            /\ ps_key_buffer' = 0
    /\ ps_instance' = TRUE
    /\ ps_last' = remember(Call("instance", <<>>, <<>>, <<>>, "", <<ObjectNames[ps_id']>>))
    /\ UNCHANGED <<ps_former, ps_heap>>
    /\ UNCHANGED <<assignerVars, routerVars, pathfinderVars, widgetVars,
                   simplifierVars, adjacencyVars,
                   cryptoVars, macroVars, layerVars>>

\* PasswordSession.reset_instance(): lock() on the instance, if any, and
\* _instance = None
ResetInstance ==
    /\ ps_derived_key' = <<>> /\ ps_key_salt' = <<>> /\ ps_is_unlocked' = FALSE
    /\ ps_key_buffer' = 0
    /\ IF ps_instance
       THEN /\ ps_heap' = zeroed_by_lock(ps_heap, ps_key_buffer)
            /\ ps_former' = Append(ps_former, SessionObject(ps_id, <<>>, <<>>, FALSE, 0))
       ELSE UNCHANGED <<ps_heap, ps_former>>
    /\ ps_instance' = FALSE
    /\ ps_id' = 0
    /\ ps_last' = remember(Call("reset_instance", <<>>, <<>>, <<>>, "", <<>>))
    /\ UNCHANGED ps_created
    /\ UNCHANGED <<assignerVars, routerVars, pathfinderVars, widgetVars,
                   simplifierVars, adjacencyVars,
                   cryptoVars, macroVars, layerVars>>

IsUnlocked ==
    /\ ps_instance
    /\ ps_last' = remember(Call("is_unlocked", <<>>, <<>>, <<>>, "",
                                IF ps_is_unlocked THEN <<"True">> ELSE <<"False">>))
    /\ UNCHANGED <<ps_instance, ps_derived_key, ps_key_salt, ps_is_unlocked>>
    /\ UNCHANGED <<ps_id, ps_created, ps_former, ps_key_buffer, ps_heap>>
    /\ UNCHANGED <<assignerVars, routerVars, pathfinderVars, widgetVars,
                   simplifierVars, adjacencyVars,
                   cryptoVars, macroVars, layerVars>>

\* unlock(): when the password verifies, a new bytearray takes the derived
\* key and replaces the one held, which is left as it is
Unlock ==
    /\ ps_instance
    /\ \E master_password \in Passwords, stored_hash \in StoredHashes, salt \in Salts :
          IF ~unlock_verifies(master_password, stored_hash, salt)
          THEN /\ ps_last' = remember(Call("unlock", <<master_password>>, stored_hash,
                                           <<salt>>, "", <<"False">>))
               /\ UNCHANGED <<ps_derived_key, ps_key_salt, ps_is_unlocked,
                              ps_key_buffer, ps_heap>>
          ELSE /\ Len(ps_heap) < MaxBuffers
               /\ ps_heap' = Append(ps_heap, derive_key(master_password, salt))
               /\ ps_key_buffer' = Len(ps_heap) + 1
               /\ ps_derived_key' = derive_key(master_password, salt)
               /\ ps_key_salt' = <<salt>>
               /\ ps_is_unlocked' = TRUE
               /\ ps_last' = remember(Call("unlock", <<master_password>>, stored_hash,
                                           <<salt>>, "", <<"True">>))
    /\ UNCHANGED <<ps_instance, ps_id, ps_created, ps_former>>
    /\ UNCHANGED <<assignerVars, routerVars, pathfinderVars, widgetVars,
                   simplifierVars, adjacencyVars,
                   cryptoVars, macroVars, layerVars>>

Setup ==
    /\ ps_instance
    /\ Len(ps_heap) < MaxBuffers
    /\ \E master_password \in Passwords, salt \in Salts :
          /\ ps_heap' = Append(ps_heap, derive_key(master_password, salt))
          /\ ps_key_buffer' = Len(ps_heap) + 1
          /\ ps_derived_key' = derive_key(master_password, salt)
          /\ ps_key_salt' = <<salt>>
          /\ ps_is_unlocked' = TRUE
          /\ ps_last' = remember(Call("setup", <<master_password>>, <<>>, <<>>, "",
                                      hash_master_password(master_password, salt)
                                          \o <<salt>>))
    /\ UNCHANGED <<ps_instance, ps_id, ps_created, ps_former>>
    /\ UNCHANGED <<assignerVars, routerVars, pathfinderVars, widgetVars,
                   simplifierVars, adjacencyVars,
                   cryptoVars, macroVars, layerVars>>

\* lock(): secure_zero on the bytearray held, then the fields are cleared
Lock ==
    /\ ps_instance
    /\ ps_heap' = zeroed_by_lock(ps_heap, ps_key_buffer)
    /\ ps_key_buffer' = 0
    /\ ps_derived_key' = <<>> /\ ps_key_salt' = <<>> /\ ps_is_unlocked' = FALSE
    /\ ps_last' = remember(Call("lock", <<>>, <<>>, <<>>, "", <<>>))
    /\ UNCHANGED <<ps_instance, ps_id, ps_created, ps_former>>
    /\ UNCHANGED <<assignerVars, routerVars, pathfinderVars, widgetVars,
                   simplifierVars, adjacencyVars,
                   cryptoVars, macroVars, layerVars>>

GetKey ==
    /\ ps_instance
    /\ ps_last' = remember(IF get_key_raises(ps_is_unlocked, ps_derived_key)
                           THEN Call("get_key", <<>>, <<>>, <<>>, "RuntimeError", <<>>)
                           ELSE Call("get_key", <<>>, <<>>, <<>>, "", ps_derived_key))
    /\ UNCHANGED <<ps_instance, ps_derived_key, ps_key_salt, ps_is_unlocked>>
    /\ UNCHANGED <<ps_id, ps_created, ps_former, ps_key_buffer, ps_heap>>
    /\ UNCHANGED <<assignerVars, routerVars, pathfinderVars, widgetVars,
                   simplifierVars, adjacencyVars,
                   cryptoVars, macroVars, layerVars>>

NextSession ==
    \/ Instance
    \/ ResetInstance
    \/ IsUnlocked
    \/ Unlock
    \/ Setup
    \/ Lock
    \/ GetKey

SpecSession == InitSession /\ [][NextSession]_vars

(***************************************************************************)
(* Specification of PasswordCrypto.generate_iv: calls, one after another.  *)
(***************************************************************************)
InitCrypto ==
    /\ iv = <<>> /\ iv_previous = <<>> /\ iv_calls = 0
    /\ AssignerIdle /\ RouterIdle /\ PathfinderIdle /\ WidgetIdle
    /\ SimplifierIdle /\ AdjacencyIdle /\ SessionIdle
    /\ MacroIdle /\ LayerIdle

GenerateIv ==
    /\ iv_calls < MaxIvCalls
    /\ iv' \in generate_iv
    /\ iv_previous' = iv
    /\ iv_calls' = iv_calls + 1
    /\ UNCHANGED <<assignerVars, routerVars, pathfinderVars, widgetVars,
                   simplifierVars, adjacencyVars, sessionVars, macroVars, layerVars>>

NextCrypto == GenerateIv

SpecCrypto == InitCrypto /\ [][NextCrypto]_vars

(***************************************************************************)
(* Specification of ActionPassword.serialize: calls on one object.         *)
(***************************************************************************)
\* len(encrypted_data): the short lengths, and those around the two limits
CipherLengths == (0..MaxCipherLen) \cup (65278..65282) \cup (65533..65537)

InitMacro ==
    /\ ap_cipher_len \in CipherLengths
    /\ ap_iv_len = IV_SIZE
    /\ ap_vial_protocol = 0
    /\ ap_serialized = [raised |-> "", bytes |-> <<>>, payload |-> 0]
    /\ AssignerIdle /\ RouterIdle /\ PathfinderIdle /\ WidgetIdle
    /\ SimplifierIdle /\ AdjacencyIdle /\ SessionIdle
    /\ CryptoIdle /\ LayerIdle

Serialize ==
    /\ \E vial_protocol \in {VIAL_PROTOCOL_PASSWORD_MACROS - 1, VIAL_PROTOCOL_PASSWORD_MACROS} :
          /\ ap_vial_protocol' = vial_protocol
          /\ ap_serialized' = serialize_password(ap_cipher_len, ap_iv_len, vial_protocol)
    /\ UNCHANGED <<ap_cipher_len, ap_iv_len>>
    /\ UNCHANGED <<assignerVars, routerVars, pathfinderVars, widgetVars,
                   simplifierVars, adjacencyVars, sessionVars, cryptoVars, layerVars>>

NextMacro == Serialize

SpecMacro == InitMacro /\ [][NextMacro]_vars


(***************************************************************************)
(* Specification of MatrixLayerManager as MatrixTest drives it: the        *)
(* keyboard is set on rebuild, the layer buttons assign current_layer,     *)
(* the reset button resets, and the matrix poll reports a key to           *)
(* process_key_press when its pressed state differs from the one it        *)
(* remembers in previous_pressed.                                          *)
(***************************************************************************)
MaxLayers == 4     \* most layers of a keyboard drawn
MaxWidgets == 3    \* key widgets of the matrix tester

LayerCounts == 2..MaxLayers
Widgets == 1..MaxWidgets

\* the keycodes of the three keys of one layer
KeyRows ==
    {<<QmkId("MO", "", "1"), QmkId("MO", "", "1"), QmkId("TG", "", "2")>>,
     <<QmkId("FN_MO13", "", "none"), QmkId("FN_MO23", "", "none"), QmkId("TG", "", "1")>>,
     <<QmkId("TO", "", "1"), QmkId("OSL", "", "2"), QmkId("MO", "", "2")>>,
     <<QmkId("LT", "1", "KC_A"), QmkId("DF", "", "1"), QmkId("TT", "", "1")>>,
     <<QmkId("MO", "", "kc"), QmkId("MO", "", "5"), QmkId("KC_A", "", "none")>>,
     <<QmkId("PDF", "", "2"), QmkId("MO", "", "3"), QmkId("LT", "2", "kc")>>}

\* keyboard.layers and keyboard.layout: every layer holds the same row, or
\* the layers above layer 0 hold the second row, or they have no entry for
\* the last key
Keyboards ==
    {[layers |-> n,
      layout |-> [c \in (0..(n - 1)) \X (1..3) |-> row[c[2]]]] :
        n \in LayerCounts, row \in KeyRows}
    \cup
    {[layers |-> n,
      layout |-> [c \in (0..(n - 1)) \X (1..3) |->
                     IF c[1] = 0 THEN row[c[2]] ELSE upper[c[2]]]] :
        n \in LayerCounts,
        row \in {<<QmkId("MO", "", "1"), QmkId("TO", "", "2"), QmkId("OSL", "", "1")>>},
        upper \in {<<QmkId("KC_TRNS", "", "none"), QmkId("MO", "", "2"),
                     QmkId("FN_MO13", "", "none")>>}}
    \cup
    {[layers |-> n,
      layout |-> [c \in ((0..(n - 1)) \X (1..3)) \ ((1..(n - 1)) \X {3}) |-> row[c[2]]]] :
        n \in LayerCounts,
        row \in {<<QmkId("TG", "", "1"), QmkId("TO", "", "1"), QmkId("MO", "", "1")>>}}

\* the manager the variables hold
Self ==
    Manager(lm_keyboard, lm_current_layer, lm_toggled_layers, lm_momentary_layers,
            lm_active_layer_keys, lm_tri_layer_held)

\* the variables take the fields of the manager m
Becomes(m) ==
    /\ lm_keyboard' = m.keyboard
    /\ lm_current_layer' = m.current_layer
    /\ lm_toggled_layers' = m.toggled_layers
    /\ lm_momentary_layers' = m.momentary_layers
    /\ lm_active_layer_keys' = m.active_layer_keys
    /\ lm_tri_layer_held' = m.tri_layer_held

\* MatrixLayerManager(): no keyboard yet
InitLayers ==
    /\ LayerIdle
    /\ AssignerIdle /\ RouterIdle /\ PathfinderIdle /\ WidgetIdle
    /\ SimplifierIdle /\ AdjacencyIdle /\ SessionIdle
    /\ CryptoIdle /\ MacroIdle

\* MatrixTest.rebuild: layer_manager.set_keyboard(device.keyboard)
SetKeyboard ==
    /\ \E keyboard \in Keyboards : Becomes(set_keyboard(Self, keyboard))
    /\ lm_last' = [op |-> "set_keyboard", key |-> 0, returned |-> FALSE]
    /\ UNCHANGED lm_pressed
    /\ UNCHANGED <<assignerVars, routerVars, pathfinderVars, widgetVars,
                   simplifierVars, adjacencyVars, sessionVars, cryptoVars, macroVars>>

\* MatrixTest.reset_keyboard_widget: layer_manager.reset() and
\* previous_pressed.clear()
Reset ==
    /\ Becomes(reset(Self))
    /\ lm_pressed' = {}
    /\ lm_last' = [op |-> "reset", key |-> 0, returned |-> FALSE]
    /\ UNCHANGED <<assignerVars, routerVars, pathfinderVars, widgetVars,
                   simplifierVars, adjacencyVars, sessionVars, cryptoVars, macroVars>>

\* MatrixTest.switch_layer: layer_manager.current_layer = idx
SetCurrentLayer ==
    /\ \E layer \in (-1)..MaxLayers :
           /\ Becomes(set_current_layer(Self, layer))
           /\ lm_last' = [op |-> "current_layer", key |-> layer, returned |-> FALSE]
    /\ UNCHANGED lm_pressed
    /\ UNCHANGED <<assignerVars, routerVars, pathfinderVars, widgetVars,
                   simplifierVars, adjacencyVars, sessionVars, cryptoVars, macroVars>>

\* the matrix poll sees a key go down: process_key_press(w, True)
Press ==
    /\ \E w \in Widgets \ lm_pressed :
       \E r \in {process_key_press(Self, w, TRUE)} :
           /\ Becomes(r.m)
           /\ lm_pressed' = lm_pressed \cup {w}
           /\ lm_last' = [op |-> "press", key |-> w, returned |-> r.returned]
    /\ UNCHANGED <<assignerVars, routerVars, pathfinderVars, widgetVars,
                   simplifierVars, adjacencyVars, sessionVars, cryptoVars, macroVars>>

\* the matrix poll sees a key go up: process_key_press(w, False)
Release ==
    /\ \E w \in lm_pressed :
       \E r \in {process_key_press(Self, w, FALSE)} :
           /\ Becomes(r.m)
           /\ lm_pressed' = lm_pressed \ {w}
           /\ lm_last' = [op |-> "release", key |-> w, returned |-> r.returned]
    /\ UNCHANGED <<assignerVars, routerVars, pathfinderVars, widgetVars,
                   simplifierVars, adjacencyVars, sessionVars, cryptoVars, macroVars>>

NextLayers == SetKeyboard \/ Reset \/ SetCurrentLayer \/ Press \/ Release

SpecLayers == InitLayers /\ [][NextLayers]_vars

(***************************************************************************)
(* Claims about ComboSlotAssigner, checked under SpecAssign.               *)
(***************************************************************************)
AssignDone == todo = <<>>

WithinCanvas(rect, canvas) ==
    /\ 0 <= rect.x /\ Right(rect) <= canvas.w
    /\ 0 <= rect.y /\ Bottom(rect) <= canvas.h

InfoOf(index) == combo_infos[index + 1]

\* C1: assign() returns one placement for every combo info it was given:
\* when the loop has ended, the number of assignments equals the number of
\* combo infos.
C1_EveryComboPlaced ==
    AssignDone => Cardinality(DOMAIN assignments) = Len(combo_infos)

\* C2: a rectangle chosen from the narrowed candidate set intersects no
\* rectangle placed before it, and any two placements that both came from the
\* narrowed candidate set do not intersect.
C2_CandidatesNeverOverlap ==
    /\ \A k \in 1..Len(placed_rects) : \A j \in 1..(k - 1) :
          placed_log[k].via = "candidates"
              => ~Intersects(placed_rects[k], placed_rects[j])
    /\ \A i, j \in DOMAIN assignments :
          (i # j /\ \E a, b \in 1..Len(placed_log) :
                        /\ placed_log[a] = [index |-> i, via |-> "candidates"]
                        /\ placed_log[b] = [index |-> j, via |-> "candidates"])
              => ~Intersects(assignments[i].rect, assignments[j].rect)

\* C2 witness: two combos were placed from the narrowed candidate set, and a
\* free slot that would have cost the second one less than the slot it got was
\* rejected because its rectangle intersects the first placement.
C2_Witness ==
    /\ Len(placed_rects) = 2
    /\ placed_log[1].via = "candidates" /\ placed_log[2].via = "candidates"
    /\ LET info == InfoOf(placed_log[2].index)
           before == SubSeq(placed_rects, 1, 1)
           used1 == {assignments[placed_log[1].index].slot.id}
           got == assignments[placed_log[2].index].slot
       IN  \E i \in 1..Len(slots) :
              LET r == rect_for_slot(slots[i], info.rect_w, info.rect_h,
                                     padding, canvas_bounds)
              IN  /\ slots[i].id \notin used1
                  /\ Intersects(r, placed_rects[1])
                  /\ slot_cost(slots[i], r, info, avg_key_size, key_rects, before)
                       < slot_cost(got, placed_rects[2], info, avg_key_size,
                                   key_rects, before)

\* C3 as stated: every label rectangle lies within the canvas, for every
\* label size.
C3_EveryLabelWithinCanvas ==
    \A i \in DOMAIN assignments : WithinCanvas(assignments[i].rect, canvas_bounds)

LabelFits(info) ==
    /\ info.rect_w + padding <= canvas_bounds.w
    /\ info.rect_h + padding <= canvas_bounds.h

CenteredRect(slot, info) ==
    Rect(slot.position[1] - info.rect_w \div 2, slot.position[2] - info.rect_h \div 2,
         info.rect_w, info.rect_h)

InsidePadding(rect) ==
    /\ padding <= rect.x /\ Right(rect) <= canvas_bounds.w - padding
    /\ padding <= rect.y /\ Bottom(rect) <= canvas_bounds.h - padding

\* C3 amended: every label rectangle whose size plus the padding does not
\* exceed the canvas lies within the canvas, whatever stage produced it and
\* wherever its slot lies; and a rectangle that, centred on its slot, already
\* lies inside the padded canvas is left centred on the slot.
C3_FittingLabelWithinCanvas ==
    \A i \in DOMAIN assignments :
        LET a == assignments[i]
        IN  /\ a.rect.w = InfoOf(i).rect_w /\ a.rect.h = InfoOf(i).rect_h
            /\ LabelFits(InfoOf(i)) => WithinCanvas(a.rect, canvas_bounds)
            /\ InsidePadding(CenteredRect(a.slot, InfoOf(i)))
                  => a.rect = CenteredRect(a.slot, InfoOf(i))

\* C3 witness: a label that fits was assigned a slot lying outside the canvas
\* and the clamp moved it inside; another placement came from the spiral.
C3_Witness ==
    /\ \E i \in DOMAIN assignments :
          /\ LabelFits(InfoOf(i))
          /\ assignments[i].slot.position[1] > canvas_bounds.w
          /\ assignments[i].rect # CenteredRect(assignments[i].slot, InfoOf(i))
          /\ WithinCanvas(assignments[i].rect, canvas_bounds)
    /\ \E k \in 1..Len(placed_log) : placed_log[k].via # "candidates"

(***************************************************************************)
(* Claims about KeyboardWidget's combo layout cache, checked under         *)
(* SpecWidget.                                                             *)
(***************************************************************************)
\* C4: a layout computation started by a paint runs to completion and yields
\* a cache value: no paint ends with _compute_combo_cache raising.
C4_ComputeCompletes ==
    last_paint # "raised"

\* C5: the cached combo layout is never stale: whenever a cache value is
\* held, it was computed from the key widgets, their positions, the free
\* slots, the combos, the font and the scale that are current.
C5_CacheNeverStale ==
    combo_cache # <<>> => cache_inputs = <<LayoutInputs>>

\* C6: between two consecutive invalidations of the cache at most one
\* computation of the combo layout is performed, however many paints occur.
C6_OneComputationPerInvalidation ==
    computations <= 1

\* the combo infos that the assigner placed, for the current inputs
PlacedInfos ==
    LET infos == layout_infos(widget_store, combo_entries_numeric,
                              combo_widget_keycodes_numeric, kw_font)
        assigned == layout_assignments(widget_store, widgets, free_slots, kw_padding,
                                       width, height, scale, infos)
    IN  SelectSeq(infos, LAMBDA info : info.index \in DOMAIN assigned)

\* C7: the layout a paint has computed holds one entry per placed combo; the
\* entry of a combo classified adjacent has no connector route, the entry of a
\* combo classified not adjacent has exactly one route per trigger key.
C7_RoutesPerTriggerKey ==
    (last_paint = "raised" \/ cache_inputs = <<LayoutInputs>>) =>
        /\ combo_cache # <<>>
        /\ Len(combo_cache[1]) = Len(PlacedInfos)
        /\ \A k \in 1..Len(PlacedInfos) :
              Len(combo_cache[1][k].connector_paths) =
                  IF PlacedInfos[k].adjacent THEN 0 ELSE PlacedInfos[k].nkeys

(***************************************************************************)
(* Claims about ConnectorRouter, checked under SpecRouter.                 *)
(***************************************************************************)
OnBoundary(p, r) ==
    /\ r.x <= p[1] /\ p[1] <= Right(r)
    /\ r.y <= p[2] /\ p[2] <= Bottom(r)
    /\ p[1] = r.x \/ p[1] = Right(r) \/ p[2] = r.y \/ p[2] = Bottom(r)

\* C8: every route returned by route() starts at the label's anchor point
\* and ends at a point on the boundary of the target key's rectangle, wherever
\* the anchor lies relative to the key.
C8_RouteEndsOnKeyBoundary ==
    route_label_center # <<>> =>
        /\ route_points # <<>>
        /\ route_points[1] = route_label_center
        /\ OnBoundary(route_points[Len(route_points)], route_key_rect)

(***************************************************************************)
(* Claims about Pathfinder, checked under SpecPathfinder.                  *)
(***************************************************************************)
Routed == pf_start # NoCell

RECURSIVE Reachable(_, _)
\* the unblocked cells joined to the cells of seen by moves in DIRECTIONS
Reachable(g, seen) ==
    LET more == {c \in Cells(g) :
                    /\ ~is_blocked(g, c)
                    /\ \E s \in seen : heuristic(c, s) = 1}
    IN  IF more \subseteq seen THEN seen ELSE Reachable(g, seen \cup more)

\* find_path cannot produce a route: no replacement for the start or for the
\* goal, or no chain of unblocked cells from the one to the other
CannotRoute ==
    \/ pf_nearest_start.cell = NoCell
    \/ pf_nearest_goal.cell = NoCell
    \/ pf_nearest_goal.cell \notin Reachable(grid, {pf_nearest_start.cell})

\* C9: find_path never raises and never returns an empty path; its cost is
\* infinite exactly when it cannot produce a route, and then the path is the
\* two-point path made of the start cell and the goal cell (the cells asked
\* for, or the unblocked cells that replaced them).
C9_FallbackIsStartThenGoal ==
    Routed =>
        /\ ~pf_raised
        /\ pf_path # <<>>
        /\ (pf_cost = INF) <=> CannotRoute
        /\ CannotRoute =>
              /\ Len(pf_path) = 2
              /\ pf_path[1] \in {pf_start, pf_nearest_start.cell}
              /\ pf_path[2] \in {pf_goal, pf_nearest_goal.cell}

Chebyshev(a, b) == Max(Abs(a[1] - b[1]), Abs(a[2] - b[2]))

\* the unblocked in-grid cells of the ring at the given radius around pos
FreeInRing(pos, radius) ==
    {c \in Cells(grid) : ~is_blocked(grid, c) /\ Chebyshev(c, pos) = radius}

NearestIsRight(pos, found) ==
    /\ found.rings <= max_radius
    /\ IF \E radius \in 0..max_radius : FreeInRing(pos, radius) # {}
       THEN /\ found.cell # NoCell
            /\ found.cell \in FreeInRing(pos, found.rings)
            /\ \A radius \in 0..(found.rings - 1) : FreeInRing(pos, radius) = {}
       ELSE found.cell = NoCell

\* C10: the search for a replacement of the start or goal cell examines at
\* most max_radius rings; it returns an unblocked in-grid cell of the smallest
\* ring that holds one when there is one within max_radius rings, and none
\* otherwise, also for cells outside the grid.
C10_NearestUnblockedWithinBound ==
    Routed => /\ NearestIsRight(pf_start, pf_nearest_start)
              /\ NearestIsRight(pf_goal, pf_nearest_goal)

\* C10 witness: in a grid that has blocked cells, a start cell outside the
\* grid was replaced by a cell of the last ring examined, and a goal cell with
\* no unblocked cell within max_radius rings got none.
C10_Witness ==
    /\ Routed
    /\ pf_start = <<-20, 0>>
    /\ pf_nearest_start.cell # NoCell /\ pf_nearest_start.rings = max_radius
    /\ pf_goal = <<-21, 0>>
    /\ pf_nearest_goal.cell = NoCell /\ pf_nearest_goal.rings = max_radius
    /\ \E c \in Cells(grid) : is_blocked(grid, c)

PathCells == {pf_path[i] : i \in 1..Len(pf_path)}

\* the key rectangles the grid was built from
GridRects ==
    CHOOSE rects \in GridKeyRects :
        grid.costs = mark_obstacles(new_grid(grid.boundary, grid.cell_size), rects,
                                    grid.cell_size \div 2).costs

\* C11: a path that find_path returns with a finite cost starts at the
\* (possibly substituted) start cell, ends at the goal cell, moves only
\* between 4-neighbouring cells and holds no blocked cell, hence no cell that a
\* key rectangle covers, whatever cells earlier routes have used.
C11_FinitePathAvoidsBlockedCells ==
    (Routed /\ ~pf_cost.inf) =>
        /\ pf_path # <<>>
        /\ pf_path[1] = pf_nearest_start.cell
        /\ pf_path[Len(pf_path)] = pf_nearest_goal.cell
        /\ \A i \in 1..(Len(pf_path) - 1) : heuristic(pf_path[i], pf_path[i + 1]) = 1
        /\ \A c \in PathCells : ~is_blocked(grid, c)
        /\ \A k \in 1..Len(GridRects) : PathCells \cap rect_cells(grid, GridRects[k]) = {}

\* C11 witness: the second route of a pass, from a blocked start cell that was
\* substituted, reached its goal around a blocked cell that lies between the
\* two ends.
C11_Witness ==
    /\ route_count = 2 /\ ~pf_cost.inf
    /\ pf_nearest_start.cell # pf_start
    /\ Len(pf_path) >= 3
    /\ \E c \in Cells(grid) :
          /\ is_blocked(grid, c)
          /\ Min(pf_path[1][1], pf_path[Len(pf_path)][1]) <= c[1]
          /\ c[1] <= Max(pf_path[1][1], pf_path[Len(pf_path)][1])
          /\ Min(pf_path[1][2], pf_path[Len(pf_path)][2]) <= c[2]
          /\ c[2] <= Max(pf_path[1][2], pf_path[Len(pf_path)][2])

\* C12: processing a route adds its cells to the grid's used set exactly when
\* the route is successful (finite cost); the cells of an infinite-cost
\* fallback path are never added, so the used set holds exactly the cells of
\* the successful routes processed so far.
C12_OnlySuccessfulRoutesMarkUsed ==
    [][route_count' = route_count + 1 =>
          grid'.used_cells =
              IF pf_cost'.inf THEN grid.used_cells
              ELSE grid.used_cells \cup {pf_path'[i] : i \in 1..Len(pf_path')}]_vars

(***************************************************************************)
(* C26.  The cost A* returns is the least cost of a path.                  *)
(***************************************************************************)
\* the direction of the move from cell a to the neighbouring cell b
MoveDirection(a, b) ==
    CHOOSE d \in 0..3 : <<a[1] + DIRECTIONS[d + 1][1], a[2] + DIRECTIONS[d + 1][2]>> = b

\* the cost of a path as the claim states it: the cost of every cell entered,
\* and one bend penalty for every change of direction after the first move
PathCost(g, bend_penalty, path) ==
    SumSeq([i \in 1..(Len(path) - 1) |-> get_cost(g, path[i + 1])])
    + bend_penalty * Cardinality({i \in 2..(Len(path) - 1) :
          MoveDirection(path[i - 1], path[i]) # MoveDirection(path[i], path[i + 1])})

RECURSIVE SimplePaths(_, _, _, _)
\* the 4-connected paths of unblocked cells from cur to goal that enter no
\* cell of visited
SimplePaths(g, cur, goal, visited) ==
    IF cur = goal THEN {<<cur>>}
    ELSE UNION {{<<cur>> \o p : p \in SimplePaths(g, n, goal, visited \cup {n})} :
                   n \in {c \in Cells(g) \ visited :
                             /\ ~is_blocked(g, c)
                             /\ \E d \in 1..4 :
                                    c = <<cur[1] + DIRECTIONS[d][1],
                                          cur[2] + DIRECTIONS[d][2]>>}}

\* an upper bound of every cost in the grid
Unreached == 4 * BLOCKED

\* one round of relaxation: the least cost of arriving at each cell from
\* each direction, by the costs known for the cell the move comes from
Relax(g, bend_penalty, dist) ==
    [s \in DOMAIN dist |->
        LET from == <<s[1][1] - DIRECTIONS[s[2] + 1][1],
                      s[1][2] - DIRECTIONS[s[2] + 1][2]>>
            via == {dist[<<from, d>>] + get_cost(g, s[1])
                        + (IF d # s[2] THEN bend_penalty ELSE 0) :
                    d \in {e \in 0..3 : <<from, e>> \in DOMAIN dist}}
        IN  IF via = {} THEN dist[s]
            ELSE Min(dist[s], CHOOSE v \in via : \A w \in via : v <= w)]

RECURSIVE WalkCosts(_, _, _)
\* the least cost of a walk of any length, by cell and direction of arrival:
\* relaxed until nothing changes
WalkCosts(g, bend_penalty, dist) ==
    LET next == Relax(g, bend_penalty, dist)
    IN  IF next = dist THEN dist ELSE WalkCosts(g, bend_penalty, next)

\* the least cost of a walk of unblocked cells from start to goal
MinWalkCost(g, bend_penalty, start, goal) ==
    LET free == {c \in Cells(g) : ~is_blocked(g, c)}
        dist0 == [s \in free \X (0..3) |-> IF s[1] = start THEN 0 ELSE Unreached]
        dist == WalkCosts(g, bend_penalty, dist0)
        ends == {dist[<<goal, d>>] : d \in 0..3}
    IN  CHOOSE v \in ends : \A w \in ends : v <= w

\* C26: when find_path returns a finite cost, that cost is the least cost of
\* a 4-connected path of unblocked cells from the start to the goal in the
\* grid as it was when the route was asked for (used-cell surcharges
\* included, the first move free of a bend penalty), and the returned path
\* is such a path and has that cost
C26_AstarCostIsMinimal ==
    [][(route_count' = route_count + 1 /\ ~pf_cost'.inf /\ ~pf_raised') =>
          LET paths == SimplePaths(grid, pf_nearest_start'.cell, pf_nearest_goal'.cell,
                                   {pf_nearest_start'.cell})
          IN  /\ pf_path' \in paths
              /\ \A p \in paths :
                     pf_cost'.value <= PathCost(grid, pf_bend_penalty, p)
              /\ PathCost(grid, pf_bend_penalty, pf_path') = pf_cost'.value
              /\ pf_cost'.value = MinWalkCost(grid, pf_bend_penalty,
                                      pf_nearest_start'.cell, pf_nearest_goal'.cell)]_vars

\* C26 witness: on a grid without keys, the second route turned once and
\* ended on a cell the first route had used: its cost is one per cell
\* entered, one bend penalty and one surcharge
C26_Witness ==
    /\ route_count = 2 /\ ~pf_cost.inf /\ ~pf_raised
    /\ \A c \in Cells(grid) : grid.costs[c] = BASE_COST
    /\ Len(pf_path) = 3
    /\ pf_path[1][1] # pf_path[3][1] /\ pf_path[1][2] # pf_path[3][2]
    /\ pf_cost.value = 2 * BASE_COST + pf_bend_penalty + 5

(***************************************************************************)
(* C13: Collinear-point removal is idempotent for any raster path (any     *)
(* finite sequence of grid cells, repeated cells, reversals and non-unit   *)
(* steps included): a second pass over the result of a first pass returns  *)
(* it unchanged.                                                           *)
(***************************************************************************)
C13_RemovalIdempotent == sp_passes = 2 => sp_path = sp_prev


\* key j can be reached from key i over at most Len(centers2) - 1 links, a
\* link joining two keys whose centres are within the threshold
Linked(centers2, avg_size, i, j) ==
    \E walk \in SeqsUpTo(1..Len(centers2), Len(centers2)) :
        /\ walk # <<>>
        /\ walk[1] = i /\ walk[Len(walk)] = j
        /\ \A k \in 1..(Len(walk) - 1) :
               within_threshold(centers2[walk[k]], centers2[walk[k + 1]], avg_size)

AllLinkedToFirst ==
    \A j \in 1..Len(adj_centers) : Linked(adj_centers, adj_avg_size, 1, j)

(***************************************************************************)
(* C14: For every non-empty list of key centres, a single key included,    *)
(* the adjacency test returns true exactly when the flood fill from key 0  *)
(* over the links "centre distance <= threshold" visits every key; the     *)
(* fill ends, and takes each key off the stack at most once.               *)
(***************************************************************************)
C14_AdjacentIffFillVisitsAll ==
    adj_adjacent # <<>> =>
        /\ adj_adjacent[1] = AllLinkedToFirst
        /\ adj_adjacent[1] = (Cardinality(adj_fill.visited) = Len(adj_centers))
        /\ IsInjective(adj_fill.pops)

(***************************************************************************)
(* C15: The adjacency result of a combo does not depend on the order of    *)
(* its key list: a call on any reordering of the list (so from any start   *)
(* key of the flood fill) returns what the call before it returned.        *)
(***************************************************************************)
C15_AdjacentInvariantUnderReordering ==
    [][(adj_adjacent # <<>> /\ adj_adjacent' # <<>>) => adj_adjacent' = adj_adjacent]_vars

\* a second call on a row of three keys listed from one end, then the other
\* end, then the middle: the fill reaches the second key of the list only
\* through the third
C15_Witness ==
    /\ adj_calls = 2
    /\ adj_centers = <<<<40, 0>>, <<0, 0>>, <<20, 0>>>>
    /\ adj_adjacent = <<TRUE>> /\ adj_fill.pops = <<1, 3, 2>>

\* the combos _collect_combo_widgets returns in the current state
CollectedCombos == collect_combo_widgets(combo_entries_numeric, combo_widget_keycodes_numeric)

DistinctWidgets(combo) == {combo.widgets[k] : k \in 1..Len(combo.widgets)}

(***************************************************************************)
(* C16: Only combos whose trigger keycodes resolve to at least 2 distinct  *)
(* key widgets are collected for placement and routing; a combo with fewer *)
(* (fewer than 2 non-zero keycodes, a keycode without widget, several      *)
(* keycodes resolving to one widget) is skipped silently: it is not        *)
(* collected and the paint that meets it does not raise.                   *)
(***************************************************************************)
C16_OnlyCombosOfTwoDistinctWidgets ==
    /\ \A i \in 1..Len(CollectedCombos) :
           Cardinality(DistinctWidgets(CollectedCombos[i])) >= 2
    /\ (last_paint = "raised") =>
           \E i \in 1..Len(CollectedCombos) :
               Cardinality(DistinctWidgets(CollectedCombos[i])) >= 2

\* the assignments the assigner returns for the current state
CurrentAssignments ==
    layout_assignments(widget_store, widgets, free_slots, kw_padding, width, height, scale,
        layout_infos(widget_store, combo_entries_numeric, combo_widget_keycodes_numeric,
                     kw_font))

(***************************************************************************)
(* C17: With an empty key set (which is also the only case of a zero-size  *)
(* canvas) a layout computation raises nothing and returns no placement    *)
(* and no route, whatever combos and stale keycode-to-widget mappings it   *)
(* is given.                                                               *)
(***************************************************************************)
C17_EmptyKeySetGivesEmptyLayout ==
    widgets = <<>> =>
        /\ last_paint # "raised"
        /\ combo_cache \in {<<>>, <<(<<>>)>>}
        /\ DOMAIN CurrentAssignments = {}

\* the same inputs held in other objects: every KeyWidget and every Slot of
\* free_slots under another identity, the order of the identities reversed
OtherWidget(w) == <<-w[1], -w[2]>>

OtherStore ==
    [w \in {OtherWidget(v) : v \in DOMAIN widget_store} |-> widget_store[OtherWidget(w)]]

OtherWidgets == [i \in 1..Len(widgets) |-> OtherWidget(widgets[i])]

OtherSlots ==
    [i \in 1..Len(free_slots) |->
        Slot(free_slots[i].position, free_slots[i].region_type,
             free_slots[i].clearance_score, <<"slots", 1, Len(free_slots) + 1 - i>>)]

OtherKeycodes ==
    [i \in 1..Len(combo_widget_keycodes_numeric) |->
        <<OtherWidget(combo_widget_keycodes_numeric[i][1]),
          combo_widget_keycodes_numeric[i][2]>>]

OtherAssignments ==
    layout_assignments(OtherStore, OtherWidgets, OtherSlots, kw_padding, width, height, scale,
        layout_infos(OtherStore, combo_entries_numeric, OtherKeycodes, kw_font))

\* what a layout says without naming objects: per combo, the label
\* rectangle and the position and region of its slot
Placements(assigned) ==
    [k \in DOMAIN assigned |->
        [rect |-> assigned[k].rect, position |-> assigned[k].slot.position,
         region_type |-> assigned[k].slot.region_type]]

SessionFields == <<ps_instance, ps_derived_key, ps_key_salt, ps_is_unlocked>>

(***************************************************************************)
(* C19: Whenever the session is locked (fresh instance, after lock(),      *)
(* after reset_instance(), after a failed unlock on a locked session),     *)
(* get_key raises RuntimeError, returns no key material and leaves the     *)
(* state of the session as it was.                                         *)
(***************************************************************************)
C19_GetKeyRaisesWhenLocked ==
    [][(ps_last' # <<>> /\ ps_last'[Len(ps_last')].op = "get_key" /\ ~ps_is_unlocked) =>
          /\ ps_last'[Len(ps_last')].raised = "RuntimeError"
          /\ ps_last'[Len(ps_last')].value = <<>>
          /\ SessionFields' = SessionFields]_vars

\* get_key has raised right after a failed unlock that followed lock()
C19_Witness ==
    /\ Len(ps_last) = 3
    /\ ps_last[1].op = "lock"
    /\ ps_last[2].op = "unlock" /\ ps_last[2].value = <<"False">>
    /\ ps_last[3].op = "get_key" /\ ps_last[3].raised = "RuntimeError"
    /\ ~ps_is_unlocked /\ ps_derived_key = <<>>

(***************************************************************************)
(* C20: unlock(p, hash, salt) returns True and leaves the session unlocked *)
(* exactly when p verifies against (hash, salt); otherwise it returns      *)
(* False and a locked session stays locked.  setup() always leaves the     *)
(* session unlocked and lock() always leaves it locked, in any order and   *)
(* number of these calls.                                                  *)
(***************************************************************************)
C20_UnlockExactlyWhenVerified ==
    [][ps_last' # <<>> =>
          /\ (ps_last'[Len(ps_last')].op = "unlock") =>
                 /\ (ps_last'[Len(ps_last')].value = <<"True">> /\ ps_is_unlocked')
                    <=> verify_master_password(ps_last'[Len(ps_last')].password[1],
                                               ps_last'[Len(ps_last')].salt[1],
                                               ps_last'[Len(ps_last')].stored_hash)
                 /\ ps_last'[Len(ps_last')].value \in {<<"True">>, <<"False">>}
                 /\ (ps_last'[Len(ps_last')].value = <<"False">>) =>
                        /\ ~verify_master_password(ps_last'[Len(ps_last')].password[1],
                                                   ps_last'[Len(ps_last')].salt[1],
                                                   ps_last'[Len(ps_last')].stored_hash)
                        /\ ps_is_unlocked' = ps_is_unlocked
          /\ (ps_last'[Len(ps_last')].op = "setup") => ps_is_unlocked'
          /\ (ps_last'[Len(ps_last')].op = "lock") => ~ps_is_unlocked']_vars

\* setup, lock, then an unlock with the right password and the salt of
\* another setup: refused, and the session is still locked
C20_Witness ==
    /\ Len(ps_last) = 3
    /\ ps_last[1].op = "setup" /\ ps_last[1].password = <<"pw1">>
    /\ ps_last[2].op = "lock"
    /\ ps_last[3].op = "unlock" /\ ps_last[3].password = <<"pw1">>
    /\ ps_last[3].stored_hash = hash_master_password("pw1", "s1")
    /\ ps_last[3].salt = <<"s2">> /\ ps_last[3].value = <<"False">>
    /\ ~ps_is_unlocked

C22_LengthBytesFitAndDecode ==
    ap_vial_protocol >= VIAL_PROTOCOL_PASSWORD_MACROS =>
        IF ap_cipher_len <= 65534
        THEN /\ ap_serialized.raised = ""
             /\ ap_serialized.bytes[3] \in 1..255
             /\ ap_serialized.bytes[4] \in 1..255
             /\ (ap_serialized.bytes[3] - 1) + 256 * (ap_serialized.bytes[4] - 1)
                    = ap_cipher_len
        ELSE ap_serialized.raised = "RuntimeError"

(***************************************************************************)
(* C23.  Order of processing in assign().                                  *)
(***************************************************************************)
\* the combo a is not processed after the combo b by the stated order:
\* larger label area first, and of equal areas more trigger keys first
OrderedBefore(a, b) ==
    \/ a.rect_w * a.rect_h > b.rect_w * b.rect_h
    \/ /\ a.rect_w * a.rect_h = b.rect_w * b.rect_h
       /\ a.nkeys >= b.nkeys

\* the combos assign() has processed: those no longer waiting
Processed ==
    {i \in 1..Len(combo_infos) :
        \A k \in 1..Len(todo) : todo[k].index # combo_infos[i].index}

\* C23: the combos are processed by non-increasing label area and, of equal
\* areas, by non-increasing number of trigger keys, whatever the order of
\* combo_infos; the slot of each placed combo is the one _choose_slot finds
\* against exactly the rectangles (and used slots) of the combos placed
\* before it
C23_ProcessedByAreaThenKeyCount ==
    /\ \A k, l \in 1..Len(todo) : k < l => OrderedBefore(todo[k], todo[l])
    /\ \A i \in Processed : \A k \in 1..Len(todo) :
           OrderedBefore(combo_infos[i], todo[k])
    /\ \A k, l \in 1..Len(placed_log) :
           k < l => OrderedBefore(InfoOf(placed_log[k].index), InfoOf(placed_log[l].index))
    /\ Len(placed_rects) = Len(placed_log)
    /\ \A k \in 1..Len(placed_log) :
           LET before == SubSeq(placed_rects, 1, k - 1)
               used == {assignments[placed_log[j].index].slot.id : j \in 1..(k - 1)}
               choice == choose_slot(InfoOf(placed_log[k].index), slots, padding,
                                     canvas_bounds, avg_key_size, key_rects,
                                     before, used)
           IN  /\ choice # None
               /\ assignments[placed_log[k].index].rect = choice.rect
               /\ assignments[placed_log[k].index].slot = choice.slot
               /\ placed_rects[k] = choice.rect

\* three combos supplied smallest first are processed in the reverse order
C23_Witness ==
    /\ todo = <<>>
    /\ Len(combo_infos) = 3
    /\ combo_infos[1].rect_w * combo_infos[1].rect_h
         = combo_infos[2].rect_w * combo_infos[2].rect_h
    /\ combo_infos[1].nkeys < combo_infos[2].nkeys
    /\ combo_infos[2].rect_w * combo_infos[2].rect_h
         < combo_infos[3].rect_w * combo_infos[3].rect_h
    /\ [k \in 1..Len(placed_log) |-> placed_log[k].index] = <<2, 1, 0>>

(***************************************************************************)
(* C24.  The ladder of _choose_slot.                                       *)
(***************************************************************************)
\* some slot of the list is admissible for the combo
AnyAdmissible(info, slot_list, placed, used) ==
    \E i \in 1..Len(slot_list) :
        admissible(info, slot_list[i], padding, canvas_bounds, placed, used)

\* the rectangles and used slots the k-th placement was evaluated against
PlacedBefore(k) == SubSeq(placed_rects, 1, k - 1)

UsedBefore(k) == {assignments[placed_log[j].index].slot.id : j \in 1..(k - 1)}

\* the stage that placed a combo is the first stage with an admissible slot,
\* and a spiral placement is the first admissible position of the spiral
LadderOrdered ==
    \A k \in 1..Len(placed_log) :
        LET info == InfoOf(placed_log[k].index)
            from_candidates == AnyAdmissible(info, candidate_slots(slots, info),
                                             PlacedBefore(k), UsedBefore(k))
            from_fallback == AnyAdmissible(info,
                                 fallback_slots(info.index, padding, canvas_bounds,
                                                avg_key_size),
                                 PlacedBefore(k), UsedBefore(k))
        IN  /\ placed_log[k].via = "candidates" <=> from_candidates
            /\ placed_log[k].via = "fallback" <=> (~from_candidates /\ from_fallback)
            /\ placed_log[k].via = "spiral" <=> (~from_candidates /\ ~from_fallback)
            /\ placed_log[k].via = "spiral" =>
                   \E n \in 1..(7 * 8) :
                       /\ assignments[info.index].slot
                            = spiral_slot(info.index, info.anchor, avg_key_size, n)
                       /\ \A m \in 1..(n - 1) :
                              ~admissible(info,
                                   spiral_slot(info.index, info.anchor, avg_key_size, m),
                                   padding, canvas_bounds, PlacedBefore(k), UsedBefore(k))

\* C24: a combo is placed on a perimeter fallback slot only if no candidate
\* of the narrowed set is admissible, on a spiral position only if no
\* perimeter slot is admissible either, and the spiral goes on until it finds
\* an admissible position: every processed combo ends up placed by one of
\* the three stages
C24_LadderOrderedAndSpiralFinds ==
    /\ LadderOrdered
    /\ \A i \in Processed : (combo_infos[i].index) \in DOMAIN assignments

(***************************************************************************)
(* C25.  The penalty and the bonus of _slot_cost by kind of combo.         *)
(***************************************************************************)
\* C25: for every combo assign() has processed and every slot whose cost was
\* computed for it, the cost of a non-exterior slot carries the multi-key
\* penalty exactly when the combo is not adjacent and has more than 2 trigger
\* keys, an exterior slot never carries it, and the region bonus of an
\* InterKey slot is positive only for an adjacent combo
C25_PenaltyOnlyForNonAdjacentMultiKey ==
    \A s \in 1..Len(slots) : \A i \in Processed :
        /\ slots[s].region_type # "EXTERIOR" =>
               (multi_key_penalty(slots[s], combo_infos[i], avg_key_size) > 0
                    <=> (~combo_infos[i].adjacent /\ combo_infos[i].nkeys > 2))
        /\ slots[s].region_type = "EXTERIOR" =>
               multi_key_penalty(slots[s], combo_infos[i], avg_key_size) = 0
        /\ (slots[s].region_type = "INTER_KEY"
              /\ region_bonus(slots[s], combo_infos[i], avg_key_size) > 0)
               => combo_infos[i].adjacent

(***************************************************************************)
(* Claims about MatrixLayerManager, checked under SpecLayers.              *)
(***************************************************************************)
\* C27: whatever keys were pressed and released and whatever layers were
\* assigned, the current layer of a manager whose keyboard has N layers is a
\* layer of that keyboard: 0 <= current_layer < N
C27_CurrentLayerWithinKeyboard ==
    lm_keyboard # None =>
        (0 <= lm_current_layer /\ lm_current_layer < lm_keyboard.layers)

\* the keycode of a key at the current layer, as _handle_key_down reads it
KeyInfoAtCurrentLayer(w) ==
    get_layer_info(get_keycode_at_layer(Self, w, lm_current_layer))

\* no toggle, momentary or tri-layer key is active
NoLayerKeyActive ==
    /\ lm_toggled_layers = {} /\ lm_momentary_layers = {} /\ lm_tri_layer_held = {}

\* C28: when no toggle, momentary or tri-layer key is active, the press of a
\* switch key (TO, DF) or of a one-shot key (OSL) whose target n is a layer of
\* the keyboard leaves n as the current layer
C28_SwitchKeyMakesTargetCurrent ==
    [][\A w \in Widgets :
          (/\ lm_last' = [op |-> "press", key |-> w, returned |-> TRUE]
           /\ lm_pressed' = lm_pressed \cup {w} /\ w \notin lm_pressed
           /\ lm_keyboard # None
           /\ NoLayerKeyActive
           /\ KeyInfoAtCurrentLayer(w) # None
           /\ KeyInfoAtCurrentLayer(w).key_type \in {"switch", "one_shot"}
           /\ KeyInfoAtCurrentLayer(w).layer < lm_keyboard.layers)
          => lm_current_layer' = KeyInfoAtCurrentLayer(w).layer]_vars

\* the fields of the manager
ManagerFields ==
    <<lm_keyboard, lm_current_layer, lm_toggled_layers, lm_momentary_layers,
      lm_active_layer_keys, lm_tri_layer_held>>

\* the step is the release of the held key w
IsReleaseOf(w) ==
    /\ w \in lm_pressed /\ lm_pressed' = lm_pressed \ {w}
    /\ lm_last'.op = "release" /\ lm_last'.key = w

\* the release of a key without a recorded press changes nothing; the release
\* of a recorded key drops the record and is applied with the key type and
\* target layer recorded when it was pressed
ReleaseUsesRecord ==
    \A w \in Widgets : IsReleaseOf(w) =>
        IF w \notin DOMAIN lm_active_layer_keys
        THEN ManagerFields' = ManagerFields /\ ~lm_last'.returned
        ELSE LET rest == [v \in DOMAIN lm_active_layer_keys \ {w} |->
                             lm_active_layer_keys[v]]
                 info == lm_active_layer_keys[w]
             IN  /\ lm_active_layer_keys' = rest
                 /\ info.key_type = "momentary" =>
                        /\ lm_momentary_layers' \subseteq lm_momentary_layers \ {info.layer}
                        /\ lm_toggled_layers' = lm_toggled_layers
                 /\ info.key_type \in {"tri_layer_1", "tri_layer_2"} =>
                        lm_tri_layer_held' = lm_tri_layer_held \ {info.key_type}
                 /\ info.key_type \in {"toggle", "switch", "one_shot"} =>
                        /\ ~lm_last'.returned
                        /\ <<lm_current_layer, lm_toggled_layers, lm_momentary_layers,
                             lm_tri_layer_held>>'
                             = <<lm_current_layer, lm_toggled_layers, lm_momentary_layers,
                                 lm_tri_layer_held>>

\* a momentary layer that is active stays active over the release of one of
\* its keys while another recorded momentary key of the same layer is held
HeldLayerStaysActive ==
    \A w \in Widgets :
        (/\ IsReleaseOf(w)
         /\ w \in DOMAIN lm_active_layer_keys
         /\ lm_active_layer_keys[w].key_type = "momentary"
         /\ lm_active_layer_keys[w].layer \in lm_momentary_layers
         /\ \E v \in (DOMAIN lm_active_layer_keys \cap lm_pressed) \ {w} :
                lm_active_layer_keys[v] = lm_active_layer_keys[w])
        => lm_active_layer_keys[w].layer \in lm_momentary_layers'

\* C29: while a momentary key of layer L is held, L stays an active momentary
\* layer however the presses and releases of several keys of L interleave; a
\* release is applied with the type and target recorded at the press, and
\* the release of a key with no recorded press changes nothing
C29_MomentaryLayerHeldWhileAnyKeyHeld ==
    [][ReleaseUsesRecord /\ HeldLayerStaysActive]_vars

(***************************************************************************)
(* C30.  The session's lock state, its key buffer and the singleton.       *)
(***************************************************************************)
\* the call the step has made
LastCall == ps_last'[Len(ps_last')]

\* every byte of the bytearray is 0
IsZeroed(data) == \A i \in DOMAIN data : data[i] = "0"

\* the session is unlocked exactly when it holds a derived key, and the key
\* it holds is the content of its bytearray; the same for the former
\* instances
UnlockedIffKeyHeld ==
    /\ ps_is_unlocked <=> ps_derived_key # <<>>
    /\ ps_is_unlocked <=> ps_key_buffer # 0
    /\ ps_key_buffer # 0 =>
           /\ ps_key_buffer \in DOMAIN ps_heap
           /\ ps_heap[ps_key_buffer] = ps_derived_key
           /\ ~IsZeroed(ps_heap[ps_key_buffer])
    /\ \A k \in 1..Len(ps_former) :
           ps_former[k].is_unlocked <=> ps_former[k].derived_key # <<>>

\* lock(), called directly or by reset_instance(), zeroes the bytearray
\* held, drops it and clears the salt
LockZeroesAndDrops ==
    (ps_instance /\ ps_last' # <<>> /\ LastCall.op \in {"lock", "reset_instance"}) =>
        /\ ps_key_buffer # 0 =>
               /\ IsZeroed(ps_heap'[ps_key_buffer])
               /\ Len(ps_heap'[ps_key_buffer]) = Len(ps_heap[ps_key_buffer])
        /\ ps_key_buffer' = 0 /\ ps_derived_key' = <<>>
        /\ ps_key_salt' = <<>> /\ ~ps_is_unlocked'
        /\ LastCall.op = "reset_instance" =>
               /\ ps_former' = Append(ps_former, SessionObject(ps_id, <<>>, <<>>, FALSE, 0))
               /\ ~ps_instance' /\ ps_id' = 0

\* instance() returns the object it returned before unless reset_instance()
\* came in between, and an object never yet returned after it
SameObjectUntilReset ==
    (ps_last' # <<>> /\ LastCall.op = "instance") =>
        /\ ps_instance' /\ ps_id' # 0
        /\ LastCall.value = <<ObjectNames[ps_id']>>
        /\ IF ps_instance THEN ps_id' = ps_id
           ELSE \A k \in 1..Len(ps_former) : ps_former[k].id # ps_id'

\* C30: after any calls of setup, unlock, lock and reset_instance,
\* is_unlocked() holds exactly when a derived key is held; lock() (also the
\* one reset_instance() makes on the old instance) has zeroed and dropped the
\* key buffer and cleared the salt; instance() returns the same object until
\* reset_instance() is called
C30_UnlockedIffKeyHeldAndLockZeroes ==
    /\ []UnlockedIffKeyHeld
    /\ [][LockZeroesAndDrops /\ SameObjectUntilReset]_vars

\* C30 witness: a session that held a key was reset, its bytearray is
\* zeroed, and two instance() calls after the reset returned the same new
\* object
C30_Witness ==
    /\ Len(ps_last) = 3
    /\ ps_last[1].op = "reset_instance"
    /\ ps_last[2].op = "instance" /\ ps_last[2].value = <<"session2">>
    /\ ps_last[3].op = "instance" /\ ps_last[3].value = <<"session2">>
    /\ Len(ps_former) = 1 /\ ps_former[1].id = 1 /\ ~ps_former[1].is_unlocked
    /\ \E b \in DOMAIN ps_heap : IsZeroed(ps_heap[b])
    /\ \E b \in DOMAIN ps_heap : ~IsZeroed(ps_heap[b])
=============================================================================
